---- MODULE Spec2Model ----
(***************************************************************************)
(* Columnar wire codec of clickhouse-arrow: the framed compression layer   *)
(* (compression.rs), the sparse column codec (native/sparse.rs), and the   *)
(* null bitmap expansion and buffer pool (simd.rs).                        *)
(*                                                                         *)
(* Each component has its own specification (SpecFrame, SpecReader, ...)   *)
(* over its own variables; the variables of the other components stay at   *)
(* their idle values.                                                      *)
(*                                                                         *)
(* Bytes are integers 0..255. A u64 or u128 is the sequence of its bytes,  *)
(* most significant first, so that a little-endian write reverses it.      *)
(***************************************************************************)
EXTENDS Integers, Sequences, FiniteSets, Bags, TLC

VARIABLES
    \* ---- frame codec: one compress_data / decompress_data_async exchange
    raw,            \* the payload handed to compress_data
    compression,    \* the method handed to compress_data
    writer,         \* the bytes written to the writer (the on-wire frame)
    expected,       \* the method handed to decompress_data_async
    decoded,        \* the result of decompress_data_async
    frame_pc,       \* "start" | "written" | "tampered" | "decoded"
    compress_call,  \* the encoder that was called and what it returned
    \* ---- streaming reader: DecompressionReader over an inner stream
    payloads,       \* the payloads whose frames make up the inner stream
    stream,         \* the bytes of the inner stream
    arrived,        \* how many of them the inner stream can serve so far
    inner_pos,      \* how many of them have been taken from the inner stream
    mode,           \* DecompressionReader.mode
    inner,          \* DecompressionReader.inner is Some
    decompressed,   \* DecompressionReader.decompressed
    position,       \* DecompressionReader.position
    block_reading_future, \* DecompressionReader.block_reading_future is Some
    fut_start,      \* where in the stream the in-flight decode started
    delivered,      \* every byte the reads have put into their buffers, in order
    last_read,      \* the outcome of the last poll_read
    reader_pc,      \* "new" | "open" | "failed" | "dropped"
    errored,        \* some read of the reader has returned an error
    \* ---- sparse offsets: read_sparse_offsets over a column's offsets stream
    granules,       \* the granules the server wrote; TRUE marks a non-default row
    sparse_bytes,   \* their offsets as varints, followed by the next column's bytes
    reader_pos,     \* how many of those bytes the reader has consumed
    state,          \* SparseDeserializeState
    state_in,       \* the state the last call was entered with
    num_rows,       \* the num_rows of the last call
    offsets,        \* the positions the last call returned
    sparse_ok,      \* whether the last call returned Ok
    sparse_panic,   \* whether the last call panicked
    calls,          \* how many calls have been made, one per granule
    \* ---- dense materialization: one expand_sparse_array call
    data_type,      \* sparse_array.data_type()
    sparse_array,   \* the sparse values; each is null or holds a value
    positions,      \* the offsets argument
    total_rows,     \* the total_rows argument
    expanded,       \* the result of expand_sparse_array
    \* ---- null bitmap expansion: one expand_null_bitmap call
    bitmap,         \* the packed validity bitmap
    len,            \* the number of values
    output_in,      \* the output slice before the call
    output,         \* the output slice
    path,           \* the implementation the call ran: "scalar" | "avx2" | "neon"
    \* ---- buffer pool: BUFFER_POOL and the buffers its callers hold
    pools,          \* the five queues: Tiny, Small, Medium, Large, XLarge
    held,           \* the buffers callers got from the pool and still own
    next_id,        \* the identity of the next allocation
    ops,            \* the number of operations on the pool so far
    pool_op,        \* the last operation on the pool and what it returned
    prewarming,     \* the puts done so far by a prewarm() running on another thread
    ends,           \* the PooledBuffer lifetimes that ended, and the puts each made
    locks,          \* the thread that holds the mutex of each queue, 0 for none
    threads,        \* where each thread stands in its call on the shared pool
    pool_log,       \* buffers handed out by get, given to put, and dropped
    \* ---- null masks: one call of a function of arrow/serialize/null.rs
    type_hint,      \* the type_hint argument
    array,          \* the array argument: its len and its null buffer, if any
    values_bytes,   \* the values_bytes argument of write_nullable_vectored
    null_writer,    \* the bytes the call wrote to its writer
    null_writes,    \* the write calls made on the writer, each with its slices
    null_mask,      \* the buffer prepare_null_bitmap returned
    null_call,      \* the function that was called
    \* ---- varints: encode_varint and decode_varint of simd.rs
    varint_value,   \* the value argument of encode_varint
    varint_buf,     \* the buffer encode_varint fills, or the slice given to decode_varint
    varint_n,       \* what encode_varint returned: the bytes written
    varint_out,     \* what decode_varint returned
    varint_pc       \* "value" | "bytes" | "encoded" | "decoded"

FrameVars == <<raw, compression, writer, expected, decoded, frame_pc, compress_call>>

ReaderVars == <<payloads, stream, arrived, inner_pos, mode, inner, decompressed,
                position, block_reading_future, fut_start, delivered, last_read,
                reader_pc, errored>>

SparseVars == <<granules, sparse_bytes, reader_pos, state, state_in, num_rows,
                offsets, sparse_ok, sparse_panic, calls>>

ExpandVars == <<data_type, sparse_array, positions, total_rows, expanded>>

BitmapVars == <<bitmap, len, output_in, output, path>>

PoolVars == <<pools, held, next_id, ops, pool_op, prewarming, ends, locks, threads,
              pool_log>>

NullsVars == <<type_hint, array, values_bytes, null_writer, null_writes, null_mask,
               null_call>>

VarintVars == <<varint_value, varint_buf, varint_n, varint_out, varint_pc>>

vars == <<FrameVars, ReaderVars, SparseVars, ExpandVars, BitmapVars, PoolVars,
          NullsVars, VarintVars>>

----------------------------------------------------------------------------
(* Bounds of the model *)

\* Longest payload handed to the encoder.
MaxPayloadLen == 2

\* Byte values payloads are drawn from.
PayloadBytes == {0, 7, 255}

\* Most frames on the inner stream of a streaming reader.
MaxFrames == 2

\* Longest decoded length of one of those frames.
MaxFrameLen == 2

\* Largest output buffer handed to poll_read.
MaxRead == 3

\* The inner stream makes its bytes available this many at a time.
ChunkSize == 10

\* Most rows of one sparse granule, and the largest num_rows asked for.
MaxRows == 3

\* Largest total_rows handed to expand_sparse_array.
MaxTotalRows == 3

\* Largest len handed to expand_null_bitmap: two chunks of 32 values and a tail.
MaxLen == 66

\* Largest number of operations on the buffer pool.
MaxOps == 3

----------------------------------------------------------------------------
(* The values of a component's variables while another component runs *)

NoResult == [kind |-> "None", msg |-> "", value |-> <<>>, consumed |-> 0]

NoCall == [variant |-> "none", kind |-> "None"]

FrameIdle ==
    /\ raw = <<>>
    /\ compression = "None"
    /\ writer = <<>>
    /\ expected = "None"
    /\ decoded = NoResult
    /\ frame_pc = "idle"
    /\ compress_call = NoCall

ReaderIdle ==
    /\ payloads = <<>>
    /\ stream = <<>>
    /\ arrived = 0
    /\ inner_pos = 0
    /\ mode = "None"
    /\ inner = FALSE
    /\ decompressed = <<>>
    /\ position = 0
    /\ block_reading_future = FALSE
    /\ fut_start = 0
    /\ delivered = <<>>
    /\ last_read = [res |-> "None", n |-> 0, msg |-> "", remaining |-> 0,
                    exhausted |-> FALSE]
    /\ reader_pc = "idle"
    /\ errored = FALSE

\* A u64 is held as its ten 7-bit groups, least significant first (the tenth
\* holds bit 63 alone), which is how a varint carries it.
U64Groups == 10

\* The u64 of a number below 2^28.
ToU64(n) == [i \in 1..U64Groups |-> IF i <= 4 THEN (n \div (128 ^ (i - 1))) % 128 ELSE 0]

\* The number of a u64 below 2^28.
FromU64(v) == v[1] + 128 * v[2] + 16384 * v[3] + 2097152 * v[4]

\* a <= b on u64
U64Leq(a, b) ==
    LET differ == {i \in 1..U64Groups : a[i] # b[i]}
    IN  IF differ = {} THEN TRUE
        ELSE LET top == CHOOSE i \in differ : \A j \in differ : j <= i
             IN  a[top] < b[top]

EmptyState == [num_trailing_defaults |-> ToU64(0), has_value_after_defaults |-> FALSE]

SparseIdle ==
    /\ granules = <<>>
    /\ sparse_bytes = <<>>
    /\ reader_pos = 0
    /\ state = EmptyState
    /\ state_in = EmptyState
    /\ num_rows = 0
    /\ offsets = <<>>
    /\ sparse_ok = TRUE
    /\ sparse_panic = FALSE
    /\ calls = 0

NotCalled == [kind |-> "None", array |-> <<>>]

ExpandIdle ==
    /\ data_type = [name |-> "Null", size |-> 0]
    /\ sparse_array = <<>>
    /\ positions = <<>>
    /\ total_rows = 0
    /\ expanded = NotCalled

BitmapIdle ==
    /\ bitmap = <<>>
    /\ len = 0
    /\ output_in = <<>>
    /\ output = <<>>
    /\ path = "idle"

NoOp ==
    [op |-> "none", kind |-> "None", request |-> <<>>, buf |-> <<>>, slot |-> 0,
     follows_put |-> FALSE, put_buf |-> <<>>, put_slot |-> 0]

PoolIdle ==
    /\ pools = <<>>
    /\ held = {}
    /\ next_id = 0
    /\ ops = 0
    /\ pool_op = NoOp
    /\ prewarming = 0
    /\ ends = <<>>
    /\ locks = <<>>
    /\ threads = <<>>
    /\ pool_log = EmptyBag

NoArray == [len |-> 0, nulls |-> FALSE, validity |-> <<>>, offset |-> 0]

NullsIdle ==
    /\ type_hint = [nullable |-> FALSE, inner |-> "Int32"]
    /\ array = NoArray
    /\ values_bytes = <<>>
    /\ null_writer = <<>>
    /\ null_writes = <<>>
    /\ null_mask = <<>>
    /\ null_call = "idle"

NoVarint == [some |-> FALSE, value |-> <<>>, consumed |-> 0]

VarintIdle ==
    /\ varint_value = <<>>
    /\ varint_buf = <<>>
    /\ varint_n = 0
    /\ varint_out = NoVarint
    /\ varint_pc = "idle"

----------------------------------------------------------------------------
(* Sequences and bytes *)

SeqsUpTo(S, n) == UNION {[1..k -> S] : k \in 0..n}

Reverse(s) == [i \in 1..Len(s) |-> s[Len(s) + 1 - i]]

Pow2(k) == 2 ^ k

BitOf(byte, k) == (byte \div Pow2(k)) % 2

\* byte XOR (1 << k)
FlipBit(byte, k) == IF BitOf(byte, k) = 1 THEN byte - Pow2(k) ELSE byte + Pow2(k)

RECURSIVE Flatten(_)
Flatten(ss) == IF ss = <<>> THEN <<>> ELSE Head(ss) \o Flatten(Tail(ss))

IsPrefix(s, t) == Len(s) <= Len(t) /\ SubSeq(t, 1, Len(s)) = s

Min(a, b) == IF a < b THEN a ELSE b

----------------------------------------------------------------------------
(* Frame codec: compression.rs *)

Methods == {"None", "LZ4", "ZSTD"}

\* CompressionMethod::byte()
MethodByte(m) == CASE m = "LZ4" -> 130 [] m = "ZSTD" -> 144 [] OTHER -> 2

\* (x as u32).to_le_bytes()
U32LE(x) == <<x % 256, (x \div 256) % 256, (x \div 65536) % 256, (x \div 16777216) % 256>>

\* u32::from_le_bytes, as read_u32_le decodes it
FromU32LE(b) == b[1] + 256 * b[2] + 65536 * b[3] + 16777216 * b[4]

\* write_u64_le / read_u64_le: least significant byte first on the wire
WriteU64LE(x) == Reverse(x)
ReadU64LE(b) == Reverse(b)

\* cityhash_rs::cityhash_102_128: a deterministic 128-bit digest of the bytes.
\* The digest is the external crate's; the model keeps that it is a function of
\* every byte and of the length.
RECURSIVE HashAcc(_, _)
HashAcc(data, acc) ==
    IF data = <<>> THEN acc
    ELSE HashAcc(Tail(data), (acc * 33 + Head(data) + 1) % 65521)

CityHash128(data) ==
    LET h == HashAcc(data, 5381)
    IN  [i \in 1..16 |-> ((h + 1) * (i + 6) + 37 * i) % 256]

\* lz4_flex::compress on an input shorter than the minimum match distance:
\* one sequence, token = literal length << 4, followed by the literals.
Lz4Compress(data) == <<16 * Len(data)>> \o data

\* lz4_flex::decompress(input, min_uncompressed_size) of a literals-only block
Lz4Decompress(input, size) ==
    IF /\ Len(input) >= 1
       /\ input[1] % 16 = 0
       /\ input[1] \div 16 < 15
       /\ Len(input) = 1 + input[1] \div 16
       /\ input[1] \div 16 <= size
    THEN [ok |-> TRUE, value |-> SubSeq(input, 2, Len(input))]
    ELSE [ok |-> FALSE, value |-> <<>>]

\* zstd::bulk::compress(raw, 1) on a short input: magic, frame header
\* (single segment, 1-byte content size), one last raw block.
ZstdCompress(data) ==
    <<40, 181, 47, 253, 32, Len(data), 8 * Len(data) + 1, 0, 0>> \o data

\* zstd::bulk::decompress(input, capacity) of such a frame
ZstdDecompress(input, capacity) ==
    IF /\ Len(input) >= 9
       /\ SubSeq(input, 1, 5) = <<40, 181, 47, 253, 32>>
       /\ Len(input) = 9 + input[6]
       /\ SubSeq(input, 7, 9) = <<8 * input[6] + 1, 0, 0>>
       /\ input[6] <= capacity
    THEN [ok |-> TRUE, value |-> SubSeq(input, 10, Len(input))]
    ELSE [ok |-> FALSE, value |-> <<>>]

\* The size field written without the 9 bytes of the header.
CompressedSizeField_PayloadOnly(out) == Len(out)

\* out.len() as u32 + 9: the size field covers the 9-byte header
CompressedSizeField(out) == Len(out) + 9

\* CompressionMethod::None => return Ok(()), never taken
ReturnsEarly_Never(method) == FALSE

\* CompressionMethod::None => return Ok(())
ReturnsEarly(method) == method = "None"

\* The two halves of the checksum, the low one first.
ChecksumHalves_LowFirst(hash) ==
    WriteU64LE(SubSeq(hash, 9, 16)) \o WriteU64LE(SubSeq(hash, 1, 8))

\* writer.write_u64_le((hash >> 64) as u64); writer.write_u64_le(hash as u64)
ChecksumHalves(hash) ==
    WriteU64LE(SubSeq(hash, 1, 8)) \o WriteU64LE(SubSeq(hash, 9, 16))

\* compress_data: the bytes written to the writer
CompressData(data, method) ==
    IF ReturnsEarly(method) THEN <<>>
    ELSE
        LET decompressed_size == Len(data)
            out == IF method = "ZSTD" THEN ZstdCompress(data) ELSE Lz4Compress(data)
            new_out == <<MethodByte(method)>> \o U32LE(CompressedSizeField(out))
                           \o U32LE(decompressed_size) \o out
            hash == CityHash128(new_out)
        IN  ChecksumHalves(hash) \o new_out

\* compress_data_sync: the bytes written to the writer
CompressDataSync(data, method) ==
    IF ReturnsEarly(method) THEN <<>>
    ELSE
        LET decompressed_size == Len(data)
            out == IF method = "ZSTD" THEN ZstdCompress(data) ELSE Lz4Compress(data)
            new_out == <<MethodByte(method)>> \o U32LE(CompressedSizeField(out))
                           \o U32LE(decompressed_size) \o out
            hash == CityHash128(new_out)
        IN  ChecksumHalves(hash) \o new_out

\* compress_data_pooled: the bytes written to the writer; raw is dropped
\* once out is made
CompressDataPooled(data, method) ==
    IF ReturnsEarly(method) THEN <<>>
    ELSE
        LET decompressed_size == Len(data)
            out == IF method = "ZSTD" THEN ZstdCompress(data) ELSE Lz4Compress(data)
            new_out == <<MethodByte(method)>> \o U32LE(CompressedSizeField(out))
                           \o U32LE(decompressed_size) \o out
            hash == CityHash128(new_out)
        IN  ChecksumHalves(hash) \o new_out

\* Results of decompress_data_async. consumed counts the bytes taken from the
\* reader; Pending is a decode suspended on a read the source cannot serve yet.
Ok(value, consumed) ==
    [kind |-> "Ok", msg |-> "", value |-> value, consumed |-> consumed]
Err(kind, msg, consumed) ==
    [kind |-> kind, msg |-> msg, value |-> <<>>, consumed |-> consumed]
Pending(consumed) ==
    [kind |-> "Pending", msg |-> "", value |-> <<>>, consumed |-> consumed]

\* A read that needs more bytes than the source holds: an I/O error at the end
\* of the source, a suspension otherwise. Either way all available bytes are taken.
ShortRead(src, eof, msg) ==
    IF eof THEN Err("Protocol", msg, Len(src)) ELSE Pending(Len(src))

MaxCompressedSize == 100000000
MaxDecompressedSize == 1000000000

\* Only the low 64 bits of the checksum are compared.
ChecksumMismatch_LowHalf(calc_checksum, checksum) ==
    SubSeq(calc_checksum, 9, 16) # SubSeq(checksum, 9, 16)

\* The checksum is not compared.
ChecksumMismatch_Skipped(calc_checksum, checksum) == FALSE

\* calc_checksum != checksum
ChecksumMismatch(calc_checksum, checksum) == calc_checksum # checksum

\* Only a byte that is no method's byte is refused.
UnexpectedAlgorithm_UnknownOnly(type_byte, method) ==
    type_byte \notin {MethodByte(m) : m \in Methods}

\* No method byte is refused.
UnexpectedAlgorithm_Never(type_byte, method) == FALSE

\* type_byte != compression.byte()
UnexpectedAlgorithm(type_byte, method) == type_byte # MethodByte(method)

\* The payload read as compressed_size bytes, the header not taken off.
PayloadLen_Whole(compressed_size) == compressed_size

\* compressed[9..].len(), compressed being vec![0u8; compressed_size as usize]
PayloadLen(compressed_size) == compressed_size - 9

\* decompress_data_async(reader, compression): src holds the bytes the reader
\* can serve from its position, eof tells that no more will come.
DecompressDataAsync(src, eof, method) ==
    IF Len(src) < 8 THEN ShortRead(src, eof, "Failed to read checksum high")
    ELSE IF Len(src) < 16 THEN ShortRead(src, eof, "Failed to read checksum low")
    ELSE IF Len(src) < 17 THEN ShortRead(src, eof, "Failed to read compression type")
    ELSE
    LET checksum_high == ReadU64LE(SubSeq(src, 1, 8))
        checksum_low == ReadU64LE(SubSeq(src, 9, 16))
        checksum == checksum_high \o checksum_low
        type_byte == src[17]
    IN
    IF UnexpectedAlgorithm(type_byte, method)
    THEN Err("Protocol", "Unexpected compression algorithm", 17)
    ELSE IF Len(src) < 21 THEN ShortRead(src, eof, "Failed to read compressed size")
    ELSE IF Len(src) < 25 THEN ShortRead(src, eof, "Failed to read decompressed size")
    ELSE
    LET compressed_size == FromU32LE(SubSeq(src, 18, 21))
        decompressed_size == FromU32LE(SubSeq(src, 22, 25))
    IN
    IF compressed_size > MaxCompressedSize \/ decompressed_size > MaxDecompressedSize
    THEN Err("Protocol", "Chunk size too large", 25)
    ELSE IF compressed_size < 9
    THEN Err("Panic", "range start index 9 out of range for slice", 25)
    ELSE IF Len(src) < 25 + PayloadLen(compressed_size)
    THEN ShortRead(src, eof, "Failed to read compressed payload")
    ELSE
    LET compressed == <<type_byte>> \o U32LE(compressed_size) \o U32LE(decompressed_size)
                          \o SubSeq(src, 26, 25 + PayloadLen(compressed_size))
        calc_checksum == CityHash128(compressed)
        payload == SubSeq(compressed, 10, Len(compressed))
        consumed == 25 + PayloadLen(compressed_size)
    IN
    IF ChecksumMismatch(calc_checksum, checksum)
    THEN Err("Protocol", "Checksum mismatch", consumed)
    ELSE IF method = "LZ4"
    THEN IF Lz4Decompress(payload, decompressed_size).ok
         THEN Ok(Lz4Decompress(payload, decompressed_size).value, consumed)
         ELSE Err("DeserializeError", "LZ4 decompress error", consumed)
    ELSE IF method = "ZSTD"
    THEN IF ZstdDecompress(payload, decompressed_size).ok
         THEN Ok(ZstdDecompress(payload, decompressed_size).value, consumed)
         ELSE Err("DeserializeError", "ZSTD decompress error", consumed)
    ELSE Err("DeserializeError", "Attempted to decompress uncompressed data", consumed)

InitFrame ==
    /\ PoolIdle
    /\ NullsIdle
    /\ VarintIdle
    /\ BitmapIdle
    /\ ReaderIdle
    /\ SparseIdle
    /\ ExpandIdle
    /\ raw \in SeqsUpTo(PayloadBytes, MaxPayloadLen)
    /\ compression \in Methods
    /\ writer = <<>>
    /\ expected = "None"
    /\ decoded = NoResult
    /\ frame_pc = "start"
    /\ compress_call = NoCall

\* compress_data(&mut writer, raw, compression)
Compress ==
    /\ frame_pc = "start"
    /\ writer' = CompressData(raw, compression)
    /\ compress_call' = [variant |-> "compress_data", kind |-> "Ok"]
    /\ frame_pc' = "written"
    /\ UNCHANGED <<raw, compression, expected, decoded>>
    /\ UNCHANGED <<ReaderVars, SparseVars, ExpandVars, BitmapVars, PoolVars, NullsVars, VarintVars>>

\* compress_data_sync(&mut writer, Bytes::from(raw), compression)
CompressSync ==
    /\ frame_pc = "start"
    /\ writer' = CompressDataSync(raw, compression)
    /\ compress_call' = [variant |-> "compress_data_sync", kind |-> "Ok"]
    /\ frame_pc' = "written"
    /\ UNCHANGED <<raw, compression, expected, decoded>>
    /\ UNCHANGED <<ReaderVars, SparseVars, ExpandVars, BitmapVars, PoolVars, NullsVars, VarintVars>>

\* compress_data_pooled(&mut writer, raw, compression), raw in a PooledBuffer
CompressPooled ==
    /\ frame_pc = "start"
    /\ writer' = CompressDataPooled(raw, compression)
    /\ compress_call' = [variant |-> "compress_data_pooled", kind |-> "Ok"]
    /\ frame_pc' = "written"
    /\ UNCHANGED <<raw, compression, expected, decoded>>
    /\ UNCHANGED <<ReaderVars, SparseVars, ExpandVars, BitmapVars, PoolVars, NullsVars, VarintVars>>

\* The frame is damaged on the wire: one bit of the checksum field is flipped.
FlipChecksumBit ==
    /\ frame_pc = "written"
    /\ Len(writer) >= 16
    /\ \E i \in 1..16, k \in 0..7 :
          writer' = [writer EXCEPT ![i] = FlipBit(writer[i], k)]
    /\ frame_pc' = "tampered"
    /\ UNCHANGED <<raw, compression, expected, decoded, compress_call>>
    /\ UNCHANGED <<ReaderVars, SparseVars, ExpandVars, BitmapVars, PoolVars, NullsVars, VarintVars>>

\* A frame as a peer may send it: any method byte, any size fields, a body,
\* and the checksum of exactly these bytes.
PeerFrame(method_byte, compressed_size, decompressed_size, body) ==
    LET new_out == <<method_byte>> \o U32LE(compressed_size) \o U32LE(decompressed_size)
                       \o body
        hash == CityHash128(new_out)
    IN  WriteU64LE(SubSeq(hash, 1, 8)) \o WriteU64LE(SubSeq(hash, 9, 16)) \o new_out

\* The size fields around the limits of decompress_data_async.
CompressedSizes == {0, 8, 9, 10, MaxCompressedSize, MaxCompressedSize + 1}
DecompressedSizes == {0, 1, MaxDecompressedSize, MaxDecompressedSize + 1}

\* The source holds a frame that compress_data did not write, its checksum
\* sound or not, alone or followed by the bytes of what comes next.
Receive ==
    /\ frame_pc = "start"
    /\ \E method \in Methods, compressed_size \in CompressedSizes,
          decompressed_size \in DecompressedSizes, body \in {<<>>, <<0>>},
          sound \in BOOLEAN, following \in {<<>>, [i \in 1..9 |-> 77]} :
          LET frame == PeerFrame(MethodByte(method), compressed_size,
                                 decompressed_size, body)
          IN  writer' = (IF sound THEN frame
                         ELSE [frame EXCEPT ![1] = FlipBit(frame[1], 0)])
                            \o following
    /\ frame_pc' = "received"
    /\ UNCHANGED <<raw, compression, expected, decoded, compress_call>>
    /\ UNCHANGED <<ReaderVars, SparseVars, ExpandVars, BitmapVars, PoolVars, NullsVars, VarintVars>>

\* decompress_data_async(&mut Cursor::new(writer), expected)
Decompress ==
    /\ frame_pc \in {"written", "tampered", "received"}
    /\ \E m \in Methods :
          /\ expected' = m
          /\ decoded' = DecompressDataAsync(writer, TRUE, m)
    /\ frame_pc' = "decoded"
    /\ UNCHANGED <<raw, compression, writer, compress_call>>
    /\ UNCHANGED <<ReaderVars, SparseVars, ExpandVars, BitmapVars, PoolVars, NullsVars, VarintVars>>

NextFrame ==
    Compress \/ CompressSync \/ CompressPooled \/ FlipChecksumBit \/ Receive \/ Decompress

SpecFrame == InitFrame /\ [][NextFrame]_vars

----------------------------------------------------------------------------
(* Streaming reader: DecompressionReader in compression.rs *)

\* The payload of the i-th frame: n bytes, each different from every other byte
\* of the stream's payloads.
FramePayload(i, n) == [j \in 1..n |-> 16 * i + j]

PayloadsOf(lens) == [i \in 1..Len(lens) |-> FramePayload(i, lens[i])]

RECURSIVE EncodeAll(_, _)
EncodeAll(ps, method) ==
    IF ps = <<>> THEN <<>>
    ELSE CompressData(Head(ps), method) \o EncodeAll(Tail(ps), method)

\* Where the k-th frame starts in the stream of the frames of ps.
FrameStart(ps, method, k) == Len(EncodeAll(SubSeq(ps, 1, k - 1), method))

\* A stream with the lowest bit of its i-th byte flipped on the wire.
Damaged(bytes, i) == [bytes EXCEPT ![i] = FlipBit(bytes[i], 0)]

\* The streams the reader may be given for the frames of ps: the frames as
\* written; the same with one byte of one frame damaged (its checksum, its
\* method byte or its compressed size); the same cut short by one byte.
Streams(ps, method) ==
    LET written == EncodeAll(ps, method)
    IN  {written}
        \cup {Damaged(written, FrameStart(ps, method, k) + field) :
                  k \in 1..Len(ps), field \in {1, 17, 18}}
        \cup {SubSeq(written, 1, Len(written) - 1)}

\* The offsets of the stream of the frames of ps at which a frame starts or the
\* stream ends.
FrameBoundaries(ps, method) == {FrameStart(ps, method, k) : k \in 1..(Len(ps) + 1)}

InitReader ==
    /\ PoolIdle
    /\ NullsIdle
    /\ VarintIdle
    /\ BitmapIdle
    /\ FrameIdle
    /\ SparseIdle
    /\ ExpandIdle
    /\ mode \in {"LZ4", "ZSTD"}
    /\ \E lens \in SeqsUpTo(0..MaxFrameLen, MaxFrames) :
          /\ lens # <<>>
          /\ payloads = PayloadsOf(lens)
    /\ stream \in Streams(payloads, mode)
    /\ arrived = 0
    /\ inner_pos = 0
    /\ inner = FALSE
    /\ decompressed = <<>>
    /\ position = 0
    /\ block_reading_future = FALSE
    /\ fut_start = 0
    /\ delivered = <<>>
    /\ last_read = [res |-> "None", n |-> 0, msg |-> "", remaining |-> 0,
                    exhausted |-> FALSE]
    /\ reader_pc = "new"
    /\ errored = FALSE

\* The decode of the frame that starts at offset `start` of the inner stream,
\* as far as the bytes that have arrived let it run.
DecodeAt(start) ==
    DecompressDataAsync(SubSeq(stream, start + 1, arrived), arrived = Len(stream), mode)

\* The inner stream receives its next bytes.
Arrive ==
    /\ reader_pc \in {"new", "open"}
    /\ arrived < Len(stream)
    /\ arrived' = Min(Len(stream), arrived + ChunkSize)
    /\ UNCHANGED <<payloads, stream, inner_pos, mode, inner, decompressed, position,
                   block_reading_future, fut_start, delivered, last_read, reader_pc,
                   errored>>
    /\ UNCHANGED <<FrameVars, SparseVars, ExpandVars, BitmapVars, PoolVars, NullsVars, VarintVars>>

\* DecompressionReader::new(mode, inner).await: completes once the first frame
\* is decoded or its decode has failed.
New ==
    /\ reader_pc = "new"
    /\ DecodeAt(0).kind # "Pending"
    /\ inner_pos' = DecodeAt(0).consumed
    /\ IF DecodeAt(0).kind = "Ok"
       THEN /\ inner' = TRUE
            /\ decompressed' = DecodeAt(0).value
            /\ reader_pc' = "open"
       ELSE /\ inner' = FALSE
            /\ decompressed' = <<>>
            /\ reader_pc' = "failed"
    /\ position' = 0
    /\ block_reading_future' = FALSE
    /\ UNCHANGED <<payloads, stream, arrived, mode, fut_start, delivered, last_read,
                   errored>>
    /\ UNCHANGED <<FrameVars, SparseVars, ExpandVars, BitmapVars, PoolVars, NullsVars, VarintVars>>

\* The fields of the reader, and the inner stream's position, as one value.
ReaderState ==
    [inner |-> inner, decompressed |-> decompressed, position |-> position,
     block_reading_future |-> block_reading_future, fut_start |-> fut_start,
     inner_pos |-> inner_pos]

PollResult(s, res, msg, data) == [s |-> s, res |-> res, msg |-> msg, data |-> data]

\* The slice served from the start of the buffer, whatever the position.
ServeSlice_FromStart(buf, pos, to_serve) == SubSeq(buf, 1, to_serve)

\* &self.decompressed[self.position..self.position + to_serve]
ServeSlice(buf, pos, to_serve) == SubSeq(buf, pos + 1, pos + to_serve)

\* Poll::Ready(Ok((value, inner))): the decoded frame becomes the current buffer
FrameReady(s, fut) ==
    [s EXCEPT !.block_reading_future = FALSE,
              !.decompressed = fut.value,
              !.position = 0,
              !.inner = TRUE,
              !.inner_pos = s.fut_start + fut.consumed]

\* The unread bytes, taken as none
Available_None(s) == 0

\* self.decompressed.len() - self.position
Available(s) == Len(s.decompressed) - s.position

\* The whole of the unread bytes, whatever room the output has
ToServe_All(available, r) == available

\* available.min(buf.remaining())
ToServe(available, r) == Min(available, r)

\* The inner reader is never found
InnerThere_Never(s) == FALSE

\* if let Some(inner) = self.inner.take()
InnerThere(s) == s.inner

\* An output buffer is never taken as full
NoRoom_Never(r) == FALSE

\* buf.remaining() == 0
NoRoom(r) == r = 0

\* poll_read with r = buf.remaining()
RECURSIVE PollRead(_, _)
PollRead(s, r) ==
    IF NoRoom(r) THEN PollResult(s, "Ok", "", <<>>)
    ELSE
    LET fut == DecodeAt(s.fut_start) IN
    IF s.block_reading_future /\ fut.kind = "Pending"
    THEN PollResult([s EXCEPT !.inner_pos = s.fut_start + fut.consumed],
                    "Pending", "", <<>>)
    ELSE IF s.block_reading_future /\ fut.kind # "Ok"
    THEN PollResult([s EXCEPT !.block_reading_future = FALSE,
                              !.inner_pos = s.fut_start + fut.consumed],
                    IF fut.kind = "Panic" THEN "Panic" ELSE "Err", fut.msg, <<>>)
    ELSE
    LET s1 == IF s.block_reading_future THEN FrameReady(s, fut) ELSE s
        available == Available(s1)
        to_serve == ToServe(available, r)
    IN
    IF available > 0
    THEN PollResult([s1 EXCEPT !.position = s1.position + to_serve], "Ok", "",
                    ServeSlice(s1.decompressed, s1.position, to_serve))
    ELSE IF InnerThere(s1)
    THEN PollRead([s1 EXCEPT !.inner = FALSE,
                             !.block_reading_future = TRUE,
                             !.fut_start = s1.inner_pos], r)
    ELSE PollResult(s1, "Ok", "", <<>>)

\* The inner stream is consumed to its end and every decoded byte is served.
Exhausted ==
    /\ arrived = Len(stream)
    /\ inner_pos = Len(stream)
    /\ position = Len(decompressed)

\* One poll_read of the reader with an output buffer of r free bytes.
Read ==
    /\ reader_pc = "open"
    /\ \E r \in 0..MaxRead :
          LET p == PollRead(ReaderState, r) IN
          /\ inner' = p.s.inner
          /\ decompressed' = p.s.decompressed
          /\ position' = p.s.position
          /\ block_reading_future' = p.s.block_reading_future
          /\ fut_start' = p.s.fut_start
          /\ inner_pos' = p.s.inner_pos
          /\ delivered' = delivered \o p.data
          /\ last_read' = [res |-> p.res, n |-> Len(p.data), msg |-> p.msg,
                            remaining |-> r, exhausted |-> Exhausted]
          /\ errored' = (errored \/ p.res = "Err")
    /\ UNCHANGED <<payloads, stream, arrived, mode, reader_pc>>
    /\ UNCHANGED <<FrameVars, SparseVars, ExpandVars, BitmapVars, PoolVars, NullsVars, VarintVars>>

\* The reader is dropped, and with it the decode of the next frame if one is
\* in flight; the inner stream stays with its owner, where the decode left it.
\* The fields keep the values they had at the drop.
DropReader ==
    /\ reader_pc = "open"
    /\ reader_pc' = "dropped"
    /\ UNCHANGED <<payloads, stream, arrived, inner_pos, mode, inner, decompressed,
                   position, block_reading_future, fut_start, delivered, last_read,
                   errored>>
    /\ UNCHANGED <<FrameVars, SparseVars, ExpandVars, BitmapVars, PoolVars, NullsVars, VarintVars>>

NextReader == Arrive \/ New \/ Read \/ DropReader

SpecReader == InitReader /\ [][NextReader]_vars

\* Streams of LZ4 frames with a frame of zero bytes ahead of, behind and
\* without a frame that holds bytes.
InitProgress ==
    /\ InitReader
    /\ mode = "LZ4"
    /\ payloads \in {PayloadsOf(<<0, 1>>), PayloadsOf(<<2, 0>>), PayloadsOf(<<0>>)}

\* A poll of a read whose output buffer has room.
Poll == Read /\ last_read'.remaining >= 1

\* ENABLED <<Poll>>_vars as a state predicate: some poll with room changes
\* a field of the reader, the bytes delivered or the result of the last read.
PollEnabled ==
    /\ reader_pc = "open"
    /\ \E r \in 1..MaxRead :
          LET p == PollRead(ReaderState, r) IN
          <<p.s.inner, p.s.decompressed, p.s.position, p.s.block_reading_future,
            p.s.fut_start, p.s.inner_pos, delivered \o p.data,
            [res |-> p.res, n |-> Len(p.data), msg |-> p.msg, remaining |-> r,
             exhausted |-> Exhausted],
            errored \/ p.res = "Err">>
          # <<inner, decompressed, position, block_reading_future, fut_start,
              inner_pos, delivered, last_read, errored>>

\* WF_vars(Poll), with PollEnabled for ENABLED <<Poll>>_vars.
FairPoll == []<>~PollEnabled \/ []<><<Poll>>_vars

\* The reader on an inner stream whose reads complete - the bytes of the
\* stream keep arriving - and under a caller that polls a pending read again
\* once it is woken.
SpecProgress ==
    InitProgress /\ [][NextReader]_vars /\ WF_vars(Arrive) /\ FairPoll

----------------------------------------------------------------------------
(* Sparse offsets: native/sparse.rs *)

\* END_OF_GRANULE_FLAG = 1 << 62: bit 6 of the ninth group
FlagGroup == 9
FlagBit == 6

\* group_size | END_OF_GRANULE_FLAG
WithEndOfGranule(v) ==
    IF BitOf(v[FlagGroup], FlagBit) = 1 THEN v
    ELSE [v EXCEPT ![FlagGroup] = v[FlagGroup] + Pow2(FlagBit)]

\* (group_size & END_OF_GRANULE_FLAG) != 0
IsEndOfGranule(group_size) == BitOf(group_size[FlagGroup], FlagBit) = 1

\* group_size & !END_OF_GRANULE_FLAG
ActualGroupSize(group_size) ==
    IF BitOf(group_size[FlagGroup], FlagBit) = 1
    THEN [group_size EXCEPT ![FlagGroup] = group_size[FlagGroup] - Pow2(FlagBit)]
    ELSE group_size

\* The varint of a u64: 7 bits per byte, least significant first, 0x80 on
\* every byte but the last.
RECURSIVE TopGroup(_, _)
TopGroup(v, i) == IF i = 1 \/ v[i] # 0 THEN i ELSE TopGroup(v, i - 1)

EncodeVarUInt(v) ==
    LET n == TopGroup(v, U64Groups)
    IN  [i \in 1..n |-> IF i < n THEN v[i] + 128 ELSE v[i]]

\* reader.read_var_uint() / try_get_var_uint(): the u64 of the varint at the
\* head of src and the bytes it takes; a failure when src ends inside it.
RECURSIVE VarUIntEnd(_, _)
VarUIntEnd(src, i) ==
    IF i > Len(src) \/ i > U64Groups THEN 0
    ELSE IF src[i] < 128 THEN i
    ELSE VarUIntEnd(src, i + 1)

ReadVarUInt(src) ==
    LET n == VarUIntEnd(src, 1)
    IN  IF n = 0
        THEN [ok |-> FALSE, value |-> ToU64(0), consumed |-> Min(Len(src), U64Groups)]
        ELSE [ok |-> TRUE,
              value |-> [i \in 1..U64Groups |->
                            IF i > n THEN 0
                            ELSE IF i = U64Groups THEN src[i] % 2
                            ELSE src[i] % 128],
              consumed |-> n]

\* The group sizes the server writes for a granule: the count of defaults
\* before each non-default value, then the trailing defaults with the
\* end-of-granule flag.
RECURSIVE GroupSizes(_, _)
GroupSizes(rows, run) ==
    IF rows = <<>> THEN <<WithEndOfGranule(ToU64(run))>>
    ELSE IF Head(rows) THEN <<ToU64(run)>> \o GroupSizes(Tail(rows), 0)
    ELSE GroupSizes(Tail(rows), run + 1)

RECURSIVE EncodeVarUInts(_)
EncodeVarUInts(vs) ==
    IF vs = <<>> THEN <<>> ELSE EncodeVarUInt(Head(vs)) \o EncodeVarUInts(Tail(vs))

EncodeOffsets(rows) == EncodeVarUInts(GroupSizes(rows, 0))

RECURSIVE EncodeGranules(_)
EncodeGranules(gs) ==
    IF gs = <<>> THEN <<>> ELSE EncodeOffsets(Head(gs)) \o EncodeGranules(Tail(gs))

\* The positions of a granule's non-default rows, in increasing order.
RECURSIVE PositionsFrom(_, _)
PositionsFrom(rows, at) ==
    IF rows = <<>> THEN <<>>
    ELSE IF Head(rows) THEN <<at>> \o PositionsFrom(Tail(rows), at + 1)
    ELSE PositionsFrom(Tail(rows), at + 1)

Positions(rows) == PositionsFrom(rows, 0)

SparseResult(ok, offs, st, pos) ==
    [ok |-> ok, panic |-> FALSE, offsets |-> offs, state |-> st, pos |-> pos]

\* The call unwinds from a panic: nothing is returned.
SparsePanic(st, pos) ==
    [ok |-> FALSE, panic |-> TRUE, offsets |-> <<>>, state |-> st, pos |-> pos]

\* The builds of the crate: overflow checks on (debug) or off (release).
Builds == {"debug", "release"}

\* The carry into group i of the sum of two u64.
RECURSIVE CarryInto(_, _, _)
CarryInto(a, b, i) ==
    IF i = 1 THEN 0 ELSE (a[i - 1] + b[i - 1] + CarryInto(a, b, i - 1)) \div 128

\* a + b goes past u64::MAX
Overflows(a, b) == a[U64Groups] + b[U64Groups] + CarryInto(a, b, U64Groups) >= 2

\* a + b modulo 2^64
WrappingAdd(a, b) ==
    [i \in 1..U64Groups |->
        (a[i] + b[i] + CarryInto(a, b, i)) % (IF i = U64Groups THEN 2 ELSE 128)]

\* current_position += b: past u64::MAX it panics where overflow is checked
\* and wraps where it is not.
AddAssign(a, b, build) ==
    IF Overflows(a, b) /\ build = "debug"
    THEN [kind |-> "Panic", value |-> a]
    ELSE [kind |-> "Ok", value |-> WrappingAdd(a, b)]

\* The borrow from group i of the difference of two u64, a >= b.
RECURSIVE BorrowFrom(_, _, _)
BorrowFrom(a, b, i) ==
    IF i = 1 THEN 0
    ELSE IF a[i - 1] - b[i - 1] - BorrowFrom(a, b, i - 1) < 0 THEN 1 ELSE 0

\* a - b for a >= b
U64Sub(a, b) ==
    [i \in 1..U64Groups |->
        LET m == IF i = U64Groups THEN 2 ELSE 128
        IN  (a[i] - b[i] - BorrowFrom(a, b, i) + m) % m]

\* (current_position as usize) < num_rows
InWindow(current_position, rows_wanted) ==
    ~U64Leq(ToU64(rows_wanted), current_position)

\* The carried value is recorded whatever the window.
CarriedValue_Always(st, p0, rows_wanted) ==
    IF st.has_value_after_defaults THEN <<FromU64(p0)>> ELSE <<>>

\* if state.has_value_after_defaults { if (current_position as usize) <
\* num_rows { offsets.push(current_position as usize); } .. }
CarriedValue(st, p0, rows_wanted) ==
    IF st.has_value_after_defaults /\ InWindow(p0, rows_wanted)
    THEN <<FromU64(p0)>> ELSE <<>>

\* State carried over from the previous read: the position the loop starts at,
\* the positions recorded so far, and the state with both fields reset.
CarryIn(rows_wanted, st, build) ==
    LET p0 == IF st.num_trailing_defaults # ToU64(0)
              THEN st.num_trailing_defaults ELSE ToU64(0)
        next == AddAssign(p0, ToU64(1), build)
    IN  IF st.has_value_after_defaults /\ next.kind = "Panic"
        THEN [kind |-> "Panic", offsets |-> <<>>, current_position |-> p0,
              state |-> [st EXCEPT !.num_trailing_defaults = ToU64(0)]]
        ELSE [kind |-> "Ok",
              offsets |-> CarriedValue(st, p0, rows_wanted),
              current_position |-> IF st.has_value_after_defaults
                                   THEN next.value ELSE p0,
              state |-> EmptyState]

\* The loop stops as soon as the window is full.
EndOfLoop_WindowFull(is_end_of_granule, current_position, rows_wanted) ==
    is_end_of_granule \/ ~InWindow(current_position, rows_wanted)

\* if is_end_of_granule { ...; break; }
EndOfLoop(is_end_of_granule, current_position, rows_wanted) == is_end_of_granule

\* The position is not moved past a recorded value.
AfterValue_NotAdvanced(current_position, build) ==
    [kind |-> "Ok", value |-> current_position]

\* offsets.push(current_position); current_position += 1
AfterValue(current_position, build) == AddAssign(current_position, ToU64(1), build)

\* if current_position > num_rows as u64 { state.num_trailing_defaults =
\* current_position - num_rows as u64; }
TrailingDefaults(st, current_position, rows_wanted) ==
    IF ~U64Leq(current_position, ToU64(rows_wanted))
    THEN [st EXCEPT !.num_trailing_defaults = U64Sub(current_position, ToU64(rows_wanted))]
    ELSE st

OnReadError_Partial(offs, st, pos) == SparseResult(TRUE, offs, st, pos)

\* reader.read_var_uint().await? / try_get_var_uint()? on a failed read: the
\* call returns the error, and the positions collected so far are dropped with
\* the vector; the state keeps what the call has written to it.
OnReadError(offs, st, pos) == SparseResult(FALSE, <<>>, st, pos)

\* The loop of read_sparse_offsets, from byte offset pos of bytes.
RECURSIVE ReadGroups(_, _, _, _, _, _, _)
ReadGroups(bytes, pos, rows_wanted, st, offs, current_position, build) ==
    LET v == ReadVarUInt(SubSeq(bytes, pos + 1, Len(bytes)))
        group_size == v.value
        is_end_of_granule == IsEndOfGranule(group_size)
        actual_group_size == ActualGroupSize(group_size)
        moved == AddAssign(current_position, actual_group_size, build)
        after == AfterValue(moved.value, build)
    IN
    IF ~v.ok THEN OnReadError(offs, st, pos + v.consumed)
    ELSE IF moved.kind = "Panic" THEN SparsePanic(st, pos + v.consumed)
    ELSE IF EndOfLoop(is_end_of_granule, moved.value, rows_wanted)
    THEN SparseResult(TRUE, offs, TrailingDefaults(st, moved.value, rows_wanted),
                      pos + v.consumed)
    ELSE IF InWindow(moved.value, rows_wanted)
    THEN IF after.kind = "Panic" THEN SparsePanic(st, pos + v.consumed)
         ELSE ReadGroups(bytes, pos + v.consumed, rows_wanted, st,
                         Append(offs, FromU64(moved.value)), after.value, build)
    ELSE ReadGroups(bytes, pos + v.consumed, rows_wanted,
                    [st EXCEPT !.has_value_after_defaults = TRUE], offs,
                    moved.value, build)

\* read_sparse_offsets(reader, num_rows, state)
ReadSparseOffsets(bytes, pos, rows_wanted, st, build) ==
    LET c == CarryIn(rows_wanted, st, build)
    IN  IF c.kind = "Panic" THEN SparsePanic(c.state, pos)
        ELSE ReadGroups(bytes, pos, rows_wanted, c.state, c.offsets,
                        c.current_position, build)

\* The loop of read_sparse_offsets_sync, from byte offset pos of bytes.
RECURSIVE ReadGroupsSync(_, _, _, _, _, _, _)
ReadGroupsSync(bytes, pos, rows_wanted, st, offs, current_position, build) ==
    LET v == ReadVarUInt(SubSeq(bytes, pos + 1, Len(bytes)))
        group_size == v.value
        is_end_of_granule == IsEndOfGranule(group_size)
        actual_group_size == ActualGroupSize(group_size)
        moved == AddAssign(current_position, actual_group_size, build)
        after == AfterValue(moved.value, build)
    IN
    IF ~v.ok THEN OnReadError(offs, st, pos + v.consumed)
    ELSE IF moved.kind = "Panic" THEN SparsePanic(st, pos + v.consumed)
    ELSE IF EndOfLoop(is_end_of_granule, moved.value, rows_wanted)
    THEN SparseResult(TRUE, offs, TrailingDefaults(st, moved.value, rows_wanted),
                      pos + v.consumed)
    ELSE IF InWindow(moved.value, rows_wanted)
    THEN IF after.kind = "Panic" THEN SparsePanic(st, pos + v.consumed)
         ELSE ReadGroupsSync(bytes, pos + v.consumed, rows_wanted, st,
                             Append(offs, FromU64(moved.value)), after.value, build)
    ELSE ReadGroupsSync(bytes, pos + v.consumed, rows_wanted,
                        [st EXCEPT !.has_value_after_defaults = TRUE], offs,
                        moved.value, build)

\* read_sparse_offsets_sync(reader, num_rows, state)
ReadSparseOffsetsSync(bytes, pos, rows_wanted, st, build) ==
    LET c == CarryIn(rows_wanted, st, build)
    IN  IF c.kind = "Panic" THEN SparsePanic(c.state, pos)
        ELSE ReadGroupsSync(bytes, pos, rows_wanted, c.state, c.offsets,
                            c.current_position, build)

\* The bytes of the column that follows the offsets on the stream.
NextColumn == <<5, 9>>

\* A column read in two blocks: the server wrote one granule for each.
Blocks == {1, 2}

InitSparse ==
    /\ PoolIdle
    /\ NullsIdle
    /\ VarintIdle
    /\ BitmapIdle
    /\ FrameIdle
    /\ ReaderIdle
    /\ ExpandIdle
    /\ granules \in [Blocks -> SeqsUpTo(BOOLEAN, MaxRows)]
    /\ sparse_bytes = EncodeGranules(granules) \o NextColumn
    /\ reader_pos = 0
    /\ state = EmptyState
    /\ state_in = EmptyState
    /\ num_rows = 0
    /\ offsets = <<>>
    /\ sparse_ok = TRUE
    /\ sparse_panic = FALSE
    /\ calls = 0

\* What a call leaves behind.
Returned(res, rows_wanted) ==
    /\ state_in' = state
    /\ num_rows' = rows_wanted
    /\ offsets' = res.offsets
    /\ state' = res.state
    /\ reader_pos' = res.pos
    /\ sparse_ok' = res.ok
    /\ sparse_panic' = res.panic
    /\ calls' = calls + 1
    /\ UNCHANGED <<granules, sparse_bytes>>
    /\ UNCHANGED <<FrameVars, ReaderVars, ExpandVars, BitmapVars, PoolVars, NullsVars, VarintVars>>

\* read_sparse_offsets(&mut reader, num_rows, &mut state).await
CallReadSparseOffsets ==
    /\ calls < Len(granules)
    /\ sparse_ok
    /\ \E rows_wanted \in 0..MaxRows, build \in Builds :
          Returned(ReadSparseOffsets(sparse_bytes, reader_pos, rows_wanted, state,
                                     build),
                   rows_wanted)

\* read_sparse_offsets_sync(&mut reader, num_rows, &mut state)
CallReadSparseOffsetsSync ==
    /\ calls < Len(granules)
    /\ sparse_ok
    /\ \E rows_wanted \in 0..MaxRows, build \in Builds :
          Returned(ReadSparseOffsetsSync(sparse_bytes, reader_pos, rows_wanted, state,
                                         build),
                   rows_wanted)

NextSparse == CallReadSparseOffsets \/ CallReadSparseOffsetsSync

SpecSparse == InitSparse /\ [][NextSparse]_vars

\* The u64 whose lowest n bits are set.
LowBits(n) ==
    [i \in 1..U64Groups |->
        IF 7 * i <= n THEN 127
        ELSE IF 7 * (i - 1) < n THEN Pow2(n - 7 * (i - 1)) - 1
        ELSE 0]

\* Whether a u64 is below 2^28.
IsSmall(v) == \A i \in 5..U64Groups : v[i] = 0

\* An offsets stream of nine-byte group sizes: a value at row 0, then runs of
\* defaults that add up to 2^64 - 1, a second value, and the end of the granule.
LongRuns ==
    EncodeVarUInts(<<ToU64(0), LowBits(62), LowBits(62), LowBits(62), LowBits(62),
                     ToU64(3), WithEndOfGranule(ToU64(0))>>)

\* The bytes a reader may find where the offsets of granule g are due: what the
\* server wrote and the next column behind it, that stream ending early at any
\* byte, and long runs of defaults, whole or ending inside a group size.
OffsetStreams(g) ==
    LET wire == EncodeOffsets(g) \o NextColumn
    IN  {SubSeq(wire, 1, k) : k \in 0..Len(wire)}
        \cup (IF g = <<>>
              THEN {LongRuns \o NextColumn, SubSeq(LongRuns, 1, Len(LongRuns) - 1),
                    SubSeq(LongRuns, 1, 5)}
              ELSE {})

\* The states a call may be entered with: what an earlier read of the column
\* left behind.
CarryStates ==
    [num_trailing_defaults : {ToU64(n) : n \in 0..MaxRows} \cup {LowBits(64)},
     has_value_after_defaults : BOOLEAN]

\* One read of a column's offsets from any stream and any carried state.
InitOffsets ==
    /\ PoolIdle
    /\ NullsIdle
    /\ VarintIdle
    /\ BitmapIdle
    /\ FrameIdle
    /\ ReaderIdle
    /\ ExpandIdle
    /\ \E g \in SeqsUpTo(BOOLEAN, MaxRows) :
          /\ granules = <<g>>
          /\ sparse_bytes \in OffsetStreams(g)
    /\ reader_pos = 0
    /\ state \in CarryStates
    /\ state_in = EmptyState
    /\ num_rows = 0
    /\ offsets = <<>>
    /\ sparse_ok = TRUE
    /\ sparse_panic = FALSE
    /\ calls = 0

SpecOffsets == InitOffsets /\ [][NextSparse]_vars

----------------------------------------------------------------------------
(* Dense materialization: expand_sparse_array in native/sparse.rs *)

\* The data types expand_sparse_array expands with expand_primitive.
PrimitiveTypes ==
    {"Int8", "Int16", "Int32", "Int64", "UInt8", "UInt16", "UInt32", "UInt64",
     "Float32", "Float64", "Date32", "Date64", "Timestamp(Second)",
     "Timestamp(Millisecond)", "Timestamp(Microsecond)", "Timestamp(Nanosecond)",
     "Decimal128", "Decimal256"}

StringTypes == {"Utf8", "LargeUtf8"}

BinaryTypes == {"Binary", "LargeBinary"}

\* Data types that reach the match's last arm.
OtherTypes == {"List", "Struct", "Map", "Dictionary"}

\* The byte width of the FixedSizeBinary type of the model.
FixedSize == 2

DataTypes ==
    {[name |-> t, size |-> 0] :
        t \in PrimitiveTypes \cup StringTypes \cup BinaryTypes \cup {"Boolean"} \cup OtherTypes}
    \cup {[name |-> "FixedSizeBinary", size |-> FixedSize]}

Zeros(size) == [i \in 1..size |-> 0]

\* The values an array of the type is filled with: the default and another.
ValuesOf(type) ==
    IF type.name \in PrimitiveTypes THEN {0, 42}
    ELSE IF type.name \in StringTypes THEN {"", "hello"}
    ELSE IF type.name \in BinaryTypes THEN {<<>>, <<1, 2>>}
    ELSE IF type.name = "Boolean" THEN {FALSE, TRUE}
    ELSE IF type.name = "FixedSizeBinary" THEN {Zeros(type.size), [i \in 1..type.size |-> 9]}
    ELSE {0}

\* One slot of an Arrow array.
ValueRow(v) == [null |-> FALSE, value |-> v]
NullRow == [null |-> TRUE]

SlotsOf(type) == {NullRow} \cup {ValueRow(v) : v \in ValuesOf(type)}

\* A null sparse value expanded to the default, losing its nullness.
MatchedRow_NullAsDefault(slot, default) ==
    IF slot.null THEN ValueRow(default) ELSE ValueRow(slot.value)

\* if sparse.is_null(offset_idx) { append_null() } else { append_value(sparse.value(offset_idx)) }
MatchedRow(slot, default) == IF slot.null THEN NullRow ELSE ValueRow(slot.value)

\* for row in 0..total_rows { ... }: the rows from `row` on, with the cursor
\* offset_idx into offsets; common to the five expand_* functions, which differ
\* in the default they append.
RECURSIVE ExpandFrom(_, _, _, _, _, _)
ExpandFrom(sparse, offs, rows, row, offset_idx, default) ==
    IF row >= rows THEN <<>>
    ELSE IF offset_idx < Len(offs) /\ offs[offset_idx + 1] = row
    THEN <<MatchedRow(sparse[offset_idx + 1], default)>>
             \o ExpandFrom(sparse, offs, rows, row + 1, offset_idx + 1, default)
    ELSE <<ValueRow(default)>>
             \o ExpandFrom(sparse, offs, rows, row + 1, offset_idx, default)

\* expand_primitive: T::Native::default()
ExpandPrimitive(sparse, offs, rows) == ExpandFrom(sparse, offs, rows, 0, 0, 0)

\* expand_string: ""
ExpandString(sparse, offs, rows) == ExpandFrom(sparse, offs, rows, 0, 0, "")

\* expand_binary: b""
ExpandBinary(sparse, offs, rows) == ExpandFrom(sparse, offs, rows, 0, 0, <<>>)

\* expand_boolean: false
ExpandBoolean(sparse, offs, rows) == ExpandFrom(sparse, offs, rows, 0, 0, FALSE)

\* expand_fixed_size_binary: vec![0u8; size]
ExpandFixedSizeBinary(sparse, offs, rows, size) ==
    ExpandFrom(sparse, offs, rows, 0, 0, Zeros(size))

\* expand_sparse_array(sparse_array, offsets, total_rows)
\* An unsupported type yields an array of total_rows zeros.
Unimplemented_ZeroFilled(type, rows) ==
    [kind |-> "Ok", array |-> [i \in 1..rows |-> ValueRow(0)]]

\* Err(Error::Unimplemented(format!("Sparse expansion not implemented for type:
\* {:?}", data_type))): names is the type the message names
Unimplemented(type, rows) ==
    [kind |-> "Unimplemented", array |-> <<>>, names |-> type.name]

ExpandSparseArray(type, sparse, offs, rows) ==
    IF Len(sparse) # Len(offs)
    THEN [kind |-> "Panic", array |-> <<>>]
    ELSE IF type.name \in PrimitiveTypes
    THEN [kind |-> "Ok", array |-> ExpandPrimitive(sparse, offs, rows)]
    ELSE IF type.name \in StringTypes
    THEN [kind |-> "Ok", array |-> ExpandString(sparse, offs, rows)]
    ELSE IF type.name \in BinaryTypes
    THEN [kind |-> "Ok", array |-> ExpandBinary(sparse, offs, rows)]
    ELSE IF type.name = "Boolean"
    THEN [kind |-> "Ok", array |-> ExpandBoolean(sparse, offs, rows)]
    ELSE IF type.name = "FixedSizeBinary"
    THEN [kind |-> "Ok", array |-> ExpandFixedSizeBinary(sparse, offs, rows, type.size)]
    ELSE Unimplemented(type, rows)

\* The strictly increasing sequences over 0..n-1.
RECURSIVE Increasing(_, _)
Increasing(from, n) ==
    IF from >= n THEN {<<>>}
    ELSE Increasing(from + 1, n)
         \cup {<<from>> \o rest : rest \in Increasing(from + 1, n)}

InitExpand ==
    /\ PoolIdle
    /\ NullsIdle
    /\ VarintIdle
    /\ BitmapIdle
    /\ FrameIdle
    /\ ReaderIdle
    /\ SparseIdle
    /\ data_type \in DataTypes
    /\ total_rows \in 0..MaxTotalRows
    /\ positions \in Increasing(0, MaxTotalRows)
    /\ sparse_array \in [1..Len(positions) -> SlotsOf(data_type)]
    /\ expanded = NotCalled

\* expand_sparse_array(&sparse_array, &offsets, total_rows)
Expand ==
    /\ expanded = NotCalled
    /\ expanded' = ExpandSparseArray(data_type, sparse_array, positions, total_rows)
    /\ UNCHANGED <<data_type, sparse_array, positions, total_rows>>
    /\ UNCHANGED <<FrameVars, ReaderVars, SparseVars, BitmapVars, PoolVars, NullsVars, VarintVars>>

NextExpand == Expand

SpecExpand == InitExpand /\ [][NextExpand]_vars

----------------------------------------------------------------------------
(* Null bitmap expansion: simd.rs *)

\* a & b on bytes
ByteAnd(a, b) ==
    LET bit(k) == BitOf(a, k) * BitOf(b, k) * Pow2(k)
    IN  bit(0) + bit(1) + bit(2) + bit(3) + bit(4) + bit(5) + bit(6) + bit(7)

\* The byte written for a valid value is 1, for a null 0.
NullFlag_Inverted(byte, mask) == IF ByteAnd(byte, mask) = 0 THEN 0 ELSE 1

\* u8::from((byte & mask) == 0)
NullFlag(byte, mask) == IF ByteAnd(byte, mask) = 0 THEN 1 ELSE 0

\* out with the bytes from 0-based index base on replaced by those of written
WriteAt(out, base, written) ==
    [i \in 1..Len(out) |->
        IF base < i /\ i <= base + Len(written) THEN written[i - base] ELSE out[i]]

\* output[base] = ..0x01.., ..., output[base + 7] = ..0x80..
Unrolled8(byte, out, base) ==
    WriteAt(out, base, [k \in 1..8 |-> NullFlag(byte, Pow2(k - 1))])

\* for (byte_idx, &byte) in bitmap.iter().take(full_bytes).enumerate()
RECURSIVE ScalarFullBytes(_, _, _, _)
ScalarFullBytes(bits, out, byte_idx, full_bytes) ==
    IF byte_idx >= full_bytes \/ byte_idx >= Len(bits) THEN out
    ELSE ScalarFullBytes(bits, Unrolled8(bits[byte_idx + 1], out, byte_idx * 8),
                         byte_idx + 1, full_bytes)

\* expand_null_bitmap_scalar(bitmap, output, len)
ExpandNullBitmapScalar(bits, out, n) ==
    LET full_bytes == n \div 8
        remainder == n % 8
        done == ScalarFullBytes(bits, out, 0, full_bytes)
    IN  IF remainder > 0
        THEN WriteAt(done, full_bytes * 8,
                     [k \in 1..remainder |-> NullFlag(bits[full_bytes + 1], Pow2(k - 1))])
        ELSE done

\* expand_byte_to_8_unchecked(byte, output, offset)
ExpandByteTo8Unchecked(byte, out, offset) ==
    WriteAt(out, offset, [k \in 1..8 |-> NullFlag(byte, Pow2(k - 1))])

\* The remainder is expanded from the start of the bitmap.
RemainderBitmap_FromStart(bits, full_chunks) == bits

\* &bitmap[full_chunks * 4..]
RemainderBitmap(bits, full_chunks) == SubSeq(bits, full_chunks * 4 + 1, Len(bits))

\* The remainder of the 32-value paths: expand_null_bitmap_scalar on the tails
\* of both slices.
ScalarOnTails(bits, out, n, full_chunks, out_idx) ==
    LET remaining == n - full_chunks * 32
    IN  IF remaining > 0
        THEN SubSeq(out, 1, out_idx)
                 \o ExpandNullBitmapScalar(RemainderBitmap(bits, full_chunks),
                                           SubSeq(out, out_idx + 1, Len(out)),
                                           remaining)
        ELSE out

\* for chunk in 0..full_chunks { ... }: four bitmap bytes to 32 output bytes
RECURSIVE Avx2Chunks(_, _, _, _)
Avx2Chunks(bits, out, chunk, full_chunks) ==
    IF chunk >= full_chunks THEN out
    ELSE
        LET bitmap_offset == chunk * 4
            out_idx == chunk * 32
            o0 == ExpandByteTo8Unchecked(bits[bitmap_offset + 1], out, out_idx)
            o1 == ExpandByteTo8Unchecked(bits[bitmap_offset + 2], o0, out_idx + 8)
            o2 == ExpandByteTo8Unchecked(bits[bitmap_offset + 3], o1, out_idx + 16)
            o3 == ExpandByteTo8Unchecked(bits[bitmap_offset + 4], o2, out_idx + 24)
        IN  Avx2Chunks(bits, o3, chunk + 1, full_chunks)

\* expand_null_bitmap_avx2(bitmap, output, len)
ExpandNullBitmapAvx2(bits, out, n) ==
    LET full_chunks == n \div 32
    IN  ScalarOnTails(bits, Avx2Chunks(bits, out, 0, full_chunks), n,
                      full_chunks, full_chunks * 32)

\* NEON lanes: an 8-lane vector of bytes is a sequence of 8 bytes.
VdupNU8(byte) == [lane \in 1..8 |-> byte]
VandU8(a, b) == [lane \in 1..8 |-> ByteAnd(a[lane], b[lane])]
VceqzU8(a) == [lane \in 1..8 |-> IF a[lane] = 0 THEN 255 ELSE 0]

\* vst1_u8(output.as_mut_ptr().add(out_idx), result)
Vst1U8(out, out_idx, lanes) ==
    WriteAt(out, out_idx, lanes)

\* One bitmap byte through the NEON lanes.
NeonByte(byte) ==
    LET bit_mask == <<1, 2, 4, 8, 16, 32, 64, 128>>
        ones == VdupNU8(1)
        byte_vec == VdupNU8(byte)
        bits == VandU8(byte_vec, bit_mask)
        is_zero == VceqzU8(bits)
    IN  VandU8(is_zero, ones)

\* for chunk in 0..full_chunks { for i in 0..4 { ... } }
RECURSIVE NeonBytes(_, _, _, _)
NeonBytes(bits, out, byte_idx, full_chunks) ==
    IF byte_idx >= full_chunks * 4 THEN out
    ELSE NeonBytes(bits, Vst1U8(out, byte_idx * 8, NeonByte(bits[byte_idx + 1])),
                   byte_idx + 1, full_chunks)

\* expand_null_bitmap_neon(bitmap, output, len)
ExpandNullBitmapNeon(bits, out, n) ==
    LET full_chunks == n \div 32
    IN  ScalarOnTails(bits, NeonBytes(bits, out, 0, full_chunks), n,
                      full_chunks, full_chunks * 32)

\* The builds of expand_null_bitmap: the cfg that is compiled in and, on
\* x86_64 without the avx2 target feature, what the CPU reports at run time.
Targets ==
    {"x86_64+avx2", "x86_64 avx2 detected", "x86_64 no avx2", "aarch64+neon", "other"}

\* The implementation expand_null_bitmap runs on a target.
PathOf(target) ==
    CASE target \in {"x86_64+avx2", "x86_64 avx2 detected"} -> "avx2"
      [] target = "aarch64+neon" -> "neon"
      [] OTHER -> "scalar"

\* expand_null_bitmap(bitmap, output, len) as built for target
ExpandNullBitmap(target, bits, out, n) ==
    CASE PathOf(target) = "avx2" -> ExpandNullBitmapAvx2(bits, out, n)
      [] PathOf(target) = "neon" -> ExpandNullBitmapNeon(bits, out, n)
      [] OTHER -> ExpandNullBitmapScalar(bits, out, n)

\* Bitmaps of n bytes: every byte value for a single byte, and for longer
\* bitmaps the windows of a sequence of bytes whose period divides neither 4 nor 8.
PatternBytes == <<170, 31, 85, 0, 255, 204, 1>>

Bitmaps(n) ==
    IF n <= 1 THEN [1..n -> 0..255]
    ELSE {[k \in 1..n |-> PatternBytes[((k + shift) % Len(PatternBytes)) + 1]] :
             shift \in 0..(Len(PatternBytes) - 1)}

InitBitmap ==
    /\ PoolIdle
    /\ NullsIdle
    /\ VarintIdle
    /\ FrameIdle
    /\ ReaderIdle
    /\ SparseIdle
    /\ ExpandIdle
    /\ len \in 0..MaxLen
    /\ \E spare \in {0, 1} : bitmap \in Bitmaps((len + 7) \div 8 + spare)
    /\ \E room \in {0, 3}, filler \in {7, 255} :
          output_in = [i \in 1..(len + room) |-> filler]
    /\ output = output_in
    /\ path = "start"

\* expand_null_bitmap(&bitmap, &mut output, len) on one of the targets
CallExpandNullBitmap ==
    /\ path = "start"
    /\ \E target \in Targets :
          /\ output' = ExpandNullBitmap(target, bitmap, output, len)
          /\ path' = PathOf(target)
    /\ UNCHANGED <<bitmap, len, output_in>>
    /\ UNCHANGED <<FrameVars, ReaderVars, SparseVars, ExpandVars, PoolVars, NullsVars, VarintVars>>

NextBitmap == CallExpandNullBitmap

SpecBitmap == InitBitmap /\ [][NextBitmap]_vars

----------------------------------------------------------------------------
(* Buffer pool: BufferPool in simd.rs *)

\* usize is the u64 of a 64-bit target: ten 7-bit groups, least significant first.
TINY == 1024
SMALL == 4096
MEDIUM == 65536
LARGE == 1048576
MAX_POOL_SIZE == 32

\* 1 << bit
OneBit(bit) == [i \in 1..U64Groups |-> IF i = (bit \div 7) + 1 THEN Pow2(bit % 7) ELSE 0]

\* The position of the highest set bit of a u64 that is not 0.
HighBit(v) ==
    LET top == TopGroup(v, U64Groups)
    IN  7 * (top - 1) + (CHOOSE k \in 0..6 : Pow2(k) <= v[top] /\ v[top] < Pow2(k + 1))

\* usize::MAX and isize::MAX
UsizeMax == [i \in 1..U64Groups |-> IF i = U64Groups THEN 1 ELSE 127]
IsizeMax == [i \in 1..U64Groups |-> IF i = U64Groups THEN 0 ELSE 127]

\* usize::next_power_of_two: past 1 << 63 it panics where overflow is
\* checked and wraps to 0 where it is not.
NextPowerOfTwo(size, build) ==
    IF size = ToU64(0) THEN [kind |-> "Ok", value |-> OneBit(0)]
    ELSE IF size = OneBit(HighBit(size)) THEN [kind |-> "Ok", value |-> size]
    ELSE IF HighBit(size) + 1 < 64
         THEN [kind |-> "Ok", value |-> OneBit(HighBit(size) + 1)]
    ELSE IF build = "debug" THEN [kind |-> "Panic", value |-> ToU64(0)]
    ELSE [kind |-> "Ok", value |-> ToU64(0)]

\* BufferPool::bucket_for_size with each ceiling excluded from its tier
BucketForSize_Exclusive(size) ==
    IF ~U64Leq(ToU64(TINY), size) THEN 0
    ELSE IF ~U64Leq(ToU64(SMALL), size) THEN 1
    ELSE IF ~U64Leq(ToU64(MEDIUM), size) THEN 2
    ELSE IF ~U64Leq(ToU64(LARGE), size) THEN 3
    ELSE 4

\* BufferPool::bucket_for_size
BucketForSize(size) ==
    IF U64Leq(size, ToU64(TINY)) THEN 0
    ELSE IF U64Leq(size, ToU64(SMALL)) THEN 1
    ELSE IF U64Leq(size, ToU64(MEDIUM)) THEN 2
    ELSE IF U64Leq(size, ToU64(LARGE)) THEN 3
    ELSE 4

\* BufferPool::round_up_capacity
RoundUpCapacity(size, build) ==
    IF U64Leq(size, ToU64(TINY)) THEN [kind |-> "Ok", value |-> ToU64(TINY)]
    ELSE IF U64Leq(size, ToU64(SMALL)) THEN [kind |-> "Ok", value |-> ToU64(SMALL)]
    ELSE IF U64Leq(size, ToU64(MEDIUM)) THEN [kind |-> "Ok", value |-> ToU64(MEDIUM)]
    ELSE IF U64Leq(size, ToU64(LARGE)) THEN [kind |-> "Ok", value |-> ToU64(LARGE)]
    ELSE NextPowerOfTwo(size, build)

\* A Vec<u8>: the identity of its allocation, its capacity and its length.
Buffer(id, capacity, length) == [id |-> id, capacity |-> capacity, len |-> length]

NoBuffer == Buffer(0, ToU64(0), 0)

\* Vec::with_capacity(capacity): "capacity overflow" past isize::MAX
VecWithCapacity(capacity, id) ==
    IF U64Leq(capacity, IsizeMax)
    THEN [kind |-> "Ok", buf |-> Buffer(id, capacity, 0)]
    ELSE [kind |-> "Panic", buf |-> NoBuffer]

\* buf.clear()
Clear(buf) == [buf EXCEPT !.len = 0]

\* The buffer a get takes from the back of the queue.
PopFront_Back(pool) ==
    [buf |-> pool[Len(pool)], rest |-> SubSeq(pool, 1, Len(pool) - 1)]

\* pool.pop_front()
PopFront(pool) == [buf |-> Head(pool), rest |-> Tail(pool)]

\* BufferPool::get(capacity): what is returned and the queues afterwards
Get(ps, capacity, id, build) ==
    LET bucket == BucketForSize(capacity)
        pool == ps[bucket + 1]
        some == pool # <<>>
        after == IF some THEN [ps EXCEPT ![bucket + 1] = PopFront(pool).rest] ELSE ps
        rounded == RoundUpCapacity(capacity, build)
        fresh == VecWithCapacity(rounded.value, id)
    IN  IF some /\ U64Leq(capacity, PopFront(pool).buf.capacity)
        THEN [kind |-> "Ok", buf |-> Clear(PopFront(pool).buf), pools |-> after]
        ELSE IF rounded.kind = "Panic"
        THEN [kind |-> "Panic", buf |-> NoBuffer, pools |-> after]
        ELSE [kind |-> fresh.kind, buf |-> fresh.buf, pools |-> after]

\* Every buffer is queued, whatever its capacity and the length of the queue.
PutSlot_Always(ps, buf) == Len(ps[BucketForSize(buf.capacity) + 1]) + 1

\* BufferPool::put(buf): the place buf takes in its queue, 0 when it is dropped
PutSlot(ps, buf) ==
    IF ~U64Leq(ToU64(TINY \div 2), buf.capacity) THEN 0
    ELSE IF Len(ps[BucketForSize(buf.capacity) + 1]) < MAX_POOL_SIZE
         THEN Len(ps[BucketForSize(buf.capacity) + 1]) + 1
    ELSE 0

\* BufferPool::put(buf): the queues afterwards
Put(ps, buf) ==
    IF PutSlot(ps, buf) = 0 THEN ps
    ELSE [ps EXCEPT ![BucketForSize(buf.capacity) + 1] = Append(@, buf)]

RECURSIVE PutAll(_, _)
PutAll(ps, bufs) == IF bufs = <<>> THEN ps ELSE PutAll(Put(ps, Head(bufs)), Tail(bufs))

\* The buffer of the k-th put of prewarm(): Vec::with_capacity of Tiny, Small,
\* Medium in turn
PrewarmBuffer(k, id) ==
    Buffer(id, ToU64(CASE k % 3 = 1 -> TINY [] k % 3 = 2 -> SMALL [] OTHER -> MEDIUM), 0)

\* BufferPool::prewarm(): four times Tiny, Small, Medium
Prewarm(ps, id) == PutAll(ps, [k \in 1..12 |-> PrewarmBuffer(k, id + k - 1)])

\* BufferPool::new()
NewPool == [bucket \in 1..5 |-> <<>>]

\* A pool whose Tiny queue has been filled by MAX_POOL_SIZE puts.
FullTiny ==
    [NewPool EXCEPT ![1] = [k \in 1..MAX_POOL_SIZE |-> Buffer(k, ToU64(TINY), 0)]]

\* The capacities callers ask the pool for.
Requests ==
    {ToU64(0), ToU64(600), ToU64(TINY), ToU64(TINY + 1), ToU64(LARGE + 1),
     OneBit(63), [OneBit(63) EXCEPT ![1] = 1], UsizeMax}

\* The capacities of buffers callers allocate themselves and hand to the pool.
OwnCapacities == {ToU64(100), ToU64(600), ToU64(TINY)}

\* The lengths callers leave in a buffer they hand to the pool.
Lengths == {0, 5}

InitPool ==
    /\ FrameIdle
    /\ ReaderIdle
    /\ SparseIdle
    /\ ExpandIdle
    /\ BitmapIdle
    /\ NullsIdle
    /\ VarintIdle
    /\ pools \in {NewPool, FullTiny}
    /\ held = {}
    /\ next_id = MAX_POOL_SIZE + 1
    /\ ops = 0
    /\ pool_op = NoOp
    /\ prewarming = 0
    /\ ends = <<>>
    /\ locks = <<>>
    /\ threads = <<>>
    /\ pool_log = EmptyBag

Others == <<FrameVars, ReaderVars, SparseVars, ExpandVars, BitmapVars, NullsVars, VarintVars>>

\* PooledBuffer { buf: Some(vec) }
Handle(vec) == [some |-> TRUE, buf |-> vec]

\* PooledBuffer::take(self): self.buf.take().unwrap(), and what is left of self
Take(handle) == [vec |-> handle.buf, handle |-> [some |-> FALSE, buf |-> NoBuffer]]

\* Drop for PooledBuffer, forgetting the buffer
DropPooledBuffer_Leak(ps, handle) == [pools |-> ps, puts |-> 0]

\* Drop for PooledBuffer: if let Some(buf) = self.buf.take() { BUFFER_POOL.put(buf) }
DropPooledBuffer(ps, handle) ==
    IF handle.some THEN [pools |-> Put(ps, handle.buf), puts |-> 1]
    ELSE [pools |-> ps, puts |-> 0]

\* The exit of compress_data_pooled at which raw is dropped: the return of
\* the None arm, the `?` of a failed ZSTD compression, or drop(raw).
CompressDataPooledExit(method, zstd_fails) ==
    IF method = "None" THEN "early_return"
    ELSE IF method = "ZSTD" /\ zstd_fails THEN "error_return"
    ELSE "early_drop"

\* BUFFER_POOL.get(capacity) / PooledBuffer::with_capacity(capacity)
CallGet ==
    /\ pools # <<>>
    /\ ops < MaxOps
    /\ \E capacity \in Requests, build \in Builds :
          LET got == Get(pools, capacity, next_id, build)
          IN  /\ pools' = got.pools
              /\ held' = IF got.kind = "Ok" THEN held \cup {got.buf} ELSE held
              /\ pool_op' = [op |-> "get", kind |-> got.kind, request |-> capacity,
                             buf |-> got.buf, slot |-> 0,
                             follows_put |-> pool_op.op = "put",
                             put_buf |-> pool_op.buf, put_slot |-> pool_op.slot]
    /\ next_id' = next_id + 1
    /\ ops' = ops + 1
    /\ prewarming' = prewarming
    /\ ends' = ends
    /\ UNCHANGED <<locks, threads, pool_log>>
    /\ UNCHANGED Others

\* BUFFER_POOL.put(buf) / drop of a PooledBuffer, after the caller wrote into buf
CallPut ==
    /\ pools # <<>>
    /\ ops < MaxOps
    /\ \E b \in held, length \in Lengths :
          /\ U64Leq(ToU64(length), b.capacity)
          /\ pools' = DropPooledBuffer(pools, Handle([b EXCEPT !.len = length])).pools
          /\ held' = held \ {b}
          /\ pool_op' = [NoOp EXCEPT !.op = "put", !.kind = "Ok",
                                     !.buf = [b EXCEPT !.len = length],
                                     !.slot = PutSlot(pools, b)]
          /\ ends' = Append(ends,
                 [id |-> b.id, how |-> "drop",
                  puts |-> DropPooledBuffer(pools, Handle(b)).puts])
    /\ next_id' = next_id
    /\ ops' = ops + 1
    /\ prewarming' = prewarming
    /\ UNCHANGED <<locks, threads, pool_log>>
    /\ UNCHANGED Others

\* BUFFER_POOL.put(buf) of a buffer the caller allocated
CallPutOwn ==
    /\ pools # <<>>
    /\ ops < MaxOps
    /\ \E capacity \in OwnCapacities, length \in Lengths :
          LET b == Buffer(next_id, capacity, length)
          IN  /\ pools' = Put(pools, b)
              /\ pool_op' = [NoOp EXCEPT !.op = "put", !.kind = "Ok", !.buf = b,
                                         !.slot = PutSlot(pools, b)]
    /\ held' = held
    /\ next_id' = next_id + 1
    /\ ops' = ops + 1
    /\ prewarming' = prewarming
    /\ ends' = ends
    /\ UNCHANGED <<locks, threads, pool_log>>
    /\ UNCHANGED Others

\* BUFFER_POOL.prewarm()
CallPrewarm ==
    /\ pools # <<>>
    /\ ops < MaxOps
    /\ pools' = Prewarm(pools, next_id)
    /\ pool_op' = [NoOp EXCEPT !.op = "prewarm", !.kind = "Ok"]
    /\ held' = held
    /\ next_id' = next_id + 12
    /\ ops' = ops + 1
    /\ prewarming' = prewarming
    /\ ends' = ends
    /\ UNCHANGED <<locks, threads, pool_log>>
    /\ UNCHANGED Others

\* One put of a BUFFER_POOL.prewarm() that runs on another thread: the pool is
\* locked for each put, not for the loop.
PrewarmPut ==
    /\ pools # <<>>
    /\ ops < MaxOps
    /\ pools' = Put(pools, PrewarmBuffer(prewarming + 1, next_id))
    /\ pool_op' = [NoOp EXCEPT !.op = "put", !.kind = "Ok",
                               !.buf = PrewarmBuffer(prewarming + 1, next_id),
                               !.slot = PutSlot(pools, PrewarmBuffer(prewarming + 1, next_id))]
    /\ prewarming' = (prewarming + 1) % 12
    /\ held' = held
    /\ next_id' = next_id + 1
    /\ ops' = ops + 1
    /\ ends' = ends
    /\ UNCHANGED <<locks, threads, pool_log>>
    /\ UNCHANGED Others

\* handle.take(): the caller gets the Vec; the handle is dropped empty
CallTake ==
    /\ pools # <<>>
    /\ ops < MaxOps
    /\ \E b \in held :
          LET taken == Take(Handle(b))
          IN  /\ pools' = DropPooledBuffer(pools, taken.handle).pools
              /\ held' = held \ {b}
              /\ pool_op' = [NoOp EXCEPT !.op = "take", !.kind = "Ok", !.buf = taken.vec]
              /\ ends' = Append(ends,
                     [id |-> b.id, how |-> "take",
                      puts |-> DropPooledBuffer(pools, taken.handle).puts])
    /\ next_id' = next_id
    /\ ops' = ops + 1
    /\ prewarming' = prewarming
    /\ UNCHANGED <<locks, threads, pool_log>>
    /\ UNCHANGED Others

\* compress_data_pooled(&mut writer, raw, compression): raw is a live handle
\* the caller wrote into; the call ends its lifetime on one of its exits
CallCompressDataPooled ==
    /\ pools # <<>>
    /\ ops < MaxOps
    /\ \E b \in held, length \in Lengths, method \in Methods, zstd_fails \in BOOLEAN :
          LET filled == [b EXCEPT !.len = length]
              exit == CompressDataPooledExit(method, zstd_fails)
              dropped == DropPooledBuffer(pools, Handle(filled))
          IN  /\ U64Leq(ToU64(length), b.capacity)
              /\ pools' = dropped.pools
              /\ held' = held \ {b}
              /\ pool_op' = [NoOp EXCEPT !.op = "put", !.kind = "Ok", !.buf = filled,
                                         !.slot = PutSlot(pools, b)]
              /\ ends' = Append(ends, [id |-> b.id, how |-> exit, puts |-> dropped.puts])
    /\ next_id' = next_id
    /\ ops' = ops + 1
    /\ prewarming' = prewarming
    /\ UNCHANGED <<locks, threads, pool_log>>
    /\ UNCHANGED Others

NextPool ==
    \/ CallGet \/ CallPut \/ CallPutOwn \/ CallPrewarm \/ PrewarmPut
    \/ CallTake \/ CallCompressDataPooled

SpecPool == InitPool /\ [][NextPool]_vars

----------------------------------------------------------------------------
(* The shared pool under threads: BUFFER_POOL of simd.rs *)

\* The threads that call the pool.
Threads == {1, 2}

\* A thread between two calls.
Resting == [pc |-> "idle", cap |-> ToU64(0), buf |-> NoBuffer, some |-> FALSE,
            seen |-> 0, k |-> 0]

\* The capacities the threads ask for, and those of the buffers they allocate
\* themselves and hand to the pool.
SharedRequests == {ToU64(600), ToU64(TINY + 1)}
SharedOwnCapacities == {ToU64(100), ToU64(TINY)}

\* A pool whose Tiny queue is one buffer short of MAX_POOL_SIZE.
NearlyFullTiny ==
    [NewPool EXCEPT ![1] = [k \in 1..(MAX_POOL_SIZE - 1) |-> Buffer(k, ToU64(TINY), 0)]]

\* A mutex that lets every thread in
CanLock_Unguarded(ls, bucket) == TRUE

\* self.pools[bucket].lock(): the thread goes on once no thread holds the mutex
CanLock(ls, bucket) == ls[bucket + 1] = 0

Lock(ls, bucket, t) == [ls EXCEPT ![bucket + 1] = t]

\* The guard is dropped.
Unlock(ls, bucket) == [ls EXCEPT ![bucket + 1] = 0]

LogEntry(ev, buf, seen) == [ev |-> ev, id |-> buf.id, capacity |-> buf.capacity, seen |-> seen]

InitShared ==
    /\ FrameIdle
    /\ ReaderIdle
    /\ SparseIdle
    /\ ExpandIdle
    /\ BitmapIdle
    /\ NullsIdle
    /\ VarintIdle
    /\ pools \in {NewPool, NearlyFullTiny}
    /\ held = {}
    /\ next_id = MAX_POOL_SIZE + 1
    /\ ops = 0
    /\ pool_op = NoOp
    /\ prewarming = 0
    /\ ends = <<>>
    /\ locks = [bucket \in 1..5 |-> 0]
    /\ threads = [t \in Threads |-> Resting]
    /\ pool_log = EmptyBag

SharedKept == <<pool_op, prewarming, ends>>

\* A thread calls BUFFER_POOL.get(capacity).
StartGet ==
    /\ locks # <<>>
    /\ ops < MaxOps
    /\ \E t \in Threads, capacity \in SharedRequests :
          /\ threads[t].pc = "idle"
          /\ threads' = [threads EXCEPT ![t] = [Resting EXCEPT !.pc = "get", !.cap = capacity]]
    /\ ops' = ops + 1
    /\ UNCHANGED <<pools, held, next_id, locks, pool_log, SharedKept>>
    /\ UNCHANGED Others

\* get: let mut pool = self.pools[bucket].lock(), and the front of the queue
\* as pop_front finds it
GetLock ==
    /\ locks # <<>>
    /\ \E t \in Threads :
          LET bucket == BucketForSize(threads[t].cap)
              pool == pools[bucket + 1]
          IN  /\ threads[t].pc = "get"
              /\ CanLock(locks, bucket)
              /\ locks' = Lock(locks, bucket, t)
              /\ threads' = [threads EXCEPT ![t].pc = "get_locked",
                                            ![t].some = (pool # <<>>),
                                            ![t].buf = IF pool # <<>> THEN PopFront(pool).buf
                                                       ELSE NoBuffer]
    /\ UNCHANGED <<pools, held, next_id, ops, pool_log, SharedKept>>
    /\ UNCHANGED Others

\* get: the front is taken off the queue; it is returned cleared if it is
\* large enough, else dropped and a new buffer allocated; the guard is dropped
GetReturn ==
    /\ locks # <<>>
    /\ \E t \in Threads, build \in Builds :
          LET bucket == BucketForSize(threads[t].cap)
              pool == pools[bucket + 1]
              fits == threads[t].some /\ U64Leq(threads[t].cap, threads[t].buf.capacity)
              fresh == VecWithCapacity(RoundUpCapacity(threads[t].cap, build).value, next_id)
              got == IF fits THEN Clear(threads[t].buf) ELSE fresh.buf
          IN  /\ threads[t].pc = "get_locked"
              /\ pools' = IF threads[t].some /\ pool # <<>>
                          THEN [pools EXCEPT ![bucket + 1] = PopFront(pool).rest]
                          ELSE pools
              /\ held' = held \cup {got}
              /\ pool_log' = pool_log
                    (+) (IF threads[t].some /\ ~fits
                         THEN SetToBag({LogEntry("dropped_small", threads[t].buf, 0)})
                         ELSE EmptyBag)
                    (+) SetToBag({LogEntry("handed", got, 0)})
              /\ locks' = Unlock(locks, bucket)
              /\ threads' = [threads EXCEPT ![t] = Resting]
    /\ next_id' = next_id + 1
    /\ UNCHANGED <<ops, SharedKept>>
    /\ UNCHANGED Others

\* A thread calls BUFFER_POOL.put(buf) with a buffer it got from the pool or
\* allocated itself; a buffer below TINY / 2 is dropped at once.
StartPut ==
    /\ locks # <<>>
    /\ ops < MaxOps
    /\ \E t \in Threads :
       \E b \in held \cup {Buffer(next_id, capacity, 0) : capacity \in SharedOwnCapacities} :
          /\ threads[t].pc = "idle"
          /\ held' = held \ {b}
          /\ IF PutSlot(NewPool, b) = 0
             THEN /\ threads' = threads
                  /\ pool_log' = pool_log
                        (+) (IF b \in held THEN EmptyBag
                             ELSE SetToBag({LogEntry("owned", b, 0)}))
                        (+) SetToBag({LogEntry("given", b, 0), LogEntry("dropped", b, 0)})
             ELSE /\ threads' = [threads EXCEPT ![t] = [Resting EXCEPT !.pc = "put", !.buf = b]]
                  /\ pool_log' = pool_log
                        (+) (IF b \in held THEN EmptyBag
                             ELSE SetToBag({LogEntry("owned", b, 0)}))
                        (+) SetToBag({LogEntry("given", b, 0)})
          /\ next_id' = IF b \in held THEN next_id ELSE next_id + 1
    /\ ops' = ops + 1
    /\ UNCHANGED <<pools, locks, SharedKept>>
    /\ UNCHANGED Others

\* put: let mut pool = self.pools[bucket].lock(), and pool.len() as the test
\* against MAX_POOL_SIZE finds it
PutLock ==
    /\ locks # <<>>
    /\ \E t \in Threads :
          LET bucket == BucketForSize(threads[t].buf.capacity)
          IN  /\ threads[t].pc = "put"
              /\ CanLock(locks, bucket)
              /\ locks' = Lock(locks, bucket, t)
              /\ threads' = [threads EXCEPT ![t].pc = "put_locked",
                                            ![t].seen = Len(pools[bucket + 1])]
    /\ UNCHANGED <<pools, held, next_id, ops, pool_log, SharedKept>>
    /\ UNCHANGED Others

\* put: pool.push_back(buf) if there was room, else buf is dropped; the guard
\* is dropped; a prewarm() goes on to its next put
PutReturn ==
    /\ locks # <<>>
    /\ \E t \in Threads :
          LET b == threads[t].buf
              bucket == BucketForSize(b.capacity)
              room == threads[t].seen < MAX_POOL_SIZE
          IN  /\ threads[t].pc = "put_locked"
              /\ pools' = IF room THEN [pools EXCEPT ![bucket + 1] = Append(@, b)]
                          ELSE pools
              /\ pool_log' = IF room THEN pool_log
                             ELSE pool_log (+) SetToBag({LogEntry("dropped", b, threads[t].seen)})
              /\ locks' = Unlock(locks, bucket)
              /\ threads' =
                    [threads EXCEPT ![t] =
                        IF threads[t].k = 0 \/ threads[t].k = 12 THEN Resting
                        ELSE [Resting EXCEPT
                                 !.pc = "put", !.k = threads[t].k + 1,
                                 !.buf = PrewarmBuffer(threads[t].k + 1, b.id + 1)]]
    /\ UNCHANGED <<held, next_id, ops, SharedKept>>
    /\ UNCHANGED Others

\* A thread calls BUFFER_POOL.prewarm(): twelve puts of new buffers. One
\* prewarm runs at a time.
StartPrewarm ==
    /\ locks # <<>>
    /\ ops < MaxOps
    /\ \A u \in Threads : threads[u].k = 0
    /\ \E t \in Threads :
          /\ threads[t].pc = "idle"
          /\ threads' = [threads EXCEPT ![t] =
                            [Resting EXCEPT !.pc = "put", !.k = 1,
                                            !.buf = PrewarmBuffer(1, next_id)]]
    /\ next_id' = next_id + 12
    /\ ops' = ops + 1
    /\ UNCHANGED <<pools, held, locks, pool_log, SharedKept>>
    /\ UNCHANGED Others

\* A thread calls BUFFER_POOL.stats().
StartStats ==
    /\ locks # <<>>
    /\ ops < MaxOps
    /\ \E t \in Threads :
          /\ threads[t].pc = "idle"
          /\ threads' = [threads EXCEPT ![t] = [Resting EXCEPT !.pc = "stats"]]
    /\ ops' = ops + 1
    /\ UNCHANGED <<pools, held, next_id, locks, pool_log, SharedKept>>
    /\ UNCHANGED Others

\* stats: self.pools[k].lock().len() for the next queue; the guards of the
\* queues counted so far are temporaries of the one struct expression and
\* live to its end
StatsLock ==
    /\ locks # <<>>
    /\ \E t \in Threads :
          /\ threads[t].pc = "stats"
          /\ threads[t].k < 5
          /\ CanLock(locks, threads[t].k)
          /\ locks' = Lock(locks, threads[t].k, t)
          /\ threads' = [threads EXCEPT ![t].k = threads[t].k + 1,
                                        ![t].seen = Len(pools[threads[t].k + 1])]
    /\ UNCHANGED <<pools, held, next_id, ops, pool_log, SharedKept>>
    /\ UNCHANGED Others

\* stats returns the five counts and its guards are dropped.
StatsReturn ==
    /\ locks # <<>>
    /\ \E t \in Threads :
          /\ threads[t].pc = "stats"
          /\ threads[t].k = 5
          /\ locks' = [bucket \in 1..5 |-> IF locks[bucket] = t THEN 0 ELSE locks[bucket]]
          /\ threads' = [threads EXCEPT ![t] = Resting]
    /\ UNCHANGED <<pools, held, next_id, ops, pool_log, SharedKept>>
    /\ UNCHANGED Others

NextShared ==
    \/ StartGet \/ GetLock \/ GetReturn
    \/ StartPut \/ PutLock \/ PutReturn
    \/ StartPrewarm
    \/ StartStats \/ StatsLock \/ StatsReturn

SpecShared == InitShared /\ [][NextShared]_vars

----------------------------------------------------------------------------
(* Null masks: arrow/serialize/null.rs *)

\* Largest number of rows of an array below one bitmap chunk; an array of a
\* whole chunk of 32 rows and more is covered as well.
MaxNullRows == 9

\* Type, as far as a null mask depends on it: whether it is wrapped in
\* Nullable, and the type inside.
TypeHints == [nullable : BOOLEAN, inner : {"Int32", "String", "Array", "Map"}]

\* type_hint.strip_null(), keeping every wrapper
StripNull_Keep(type) == IF type.nullable THEN "Nullable" ELSE type.inner

\* type_hint.strip_null()
StripNull(type) == type.inner

\* matches!(type_hint.strip_null(), Type::Array(_) | Type::Map(_, _))
IsContainer(type) == StripNull(type) \in {"Array", "Map"}

\* Vec::resize(new_len, value), leaving the new bytes as they come
Resize_Unfilled(vec, new_len, value) ==
    [i \in 1..new_len |-> IF i <= Len(vec) THEN vec[i] ELSE 1]

\* Vec::resize(new_len, value)
Resize(vec, new_len, value) ==
    [i \in 1..new_len |-> IF i <= Len(vec) THEN vec[i] ELSE value]

\* PooledBuffer::with_capacity(capacity): the bytes of the buffer, which
\* BufferPool::get has either cleared or just allocated
PooledBufferWithCapacity(capacity) == <<>>

\* let mut null_mask = PooledBuffer::with_capacity(len);
\* null_mask.resize(len, 0);
\* if let Some(null_buffer) = array.nulls() {
\*     expand_null_bitmap(null_buffer.validity(), &mut null_mask, len);
\* }
ExpandedNullMask(target, arr) ==
    LET n == arr.len
        zeroed == Resize(PooledBufferWithCapacity(n), n, 0)
    IN  IF arr.nulls
        THEN ExpandNullBitmap(target, arr.validity, zeroed, n)
        ELSE zeroed

\* prepare_null_bitmap(array)
PrepareNullBitmap(target, arr) == ExpandedNullMask(target, arr)

\* One call on the writer and the slices it is given.
WriteCall(call, bufs) == [call |-> call, bufs |-> bufs]

\* The bytes a sequence of write calls puts on the writer.
Written(writes) == Flatten(Flatten([k \in 1..Len(writes) |-> writes[k].bufs]))

\* The values submitted ahead of the mask
VectoredBufs_ValuesFirst(mask, values) == <<values, mask>>

\* let mut bufs = [IoSlice::new(&null_mask), IoSlice::new(values_bytes)];
VectoredBufs(mask, values) == <<mask, values>>

\* write_nullable_vectored(type_hint, writer, array, values_bytes): the calls
\* it makes on the writer
NullableVectoredWrites(target, type, arr, values) ==
    IF IsContainer(type)
    THEN IF values # <<>> THEN <<WriteCall("write_all", <<values>>)>> ELSE <<>>
    ELSE IF arr.len = 0 THEN <<>>
    ELSE <<WriteCall("write_vectored_all",
                     VectoredBufs(PrepareNullBitmap(target, arr), values))>>

\* write_nullable_vectored(type_hint, writer, array, values_bytes): the bytes
\* it writes
WriteNullableVectored(target, type, arr, values) ==
    Written(NullableVectoredWrites(target, type, arr, values))

\* The one call that writes a mask, if there is one to write.
MaskWrite(call, mask) == IF mask = <<>> THEN <<>> ELSE <<WriteCall(call, <<mask>>)>>

\* serialize_nulls_async(type_hint, writer, array, state): the bytes it writes
SerializeNullsAsync(target, type, arr) ==
    IF IsContainer(type) THEN <<>>
    ELSE IF arr.len = 0 THEN <<>>
    ELSE ExpandedNullMask(target, arr)

\* serialize_nulls(type_hint, writer, array, state): the bytes it writes
SerializeNulls(target, type, arr) ==
    IF IsContainer(type) THEN <<>>
    ELSE IF arr.len = 0 THEN <<>>
    ELSE ExpandedNullMask(target, arr)

\* The row counts of the arrays.
ArrayLens == (0..MaxNullRows) \cup {32, 32 + MaxNullRows}

\* Validity buffers of n bytes: all rows valid, all rows null, and mixed ones.
ValidityBuffers(n) ==
    {[k \in 1..n |-> 255], [k \in 1..n |-> 0]}
        \cup {[k \in 1..n |-> PatternBytes[((k + shift) % Len(PatternBytes)) + 1]] :
                 shift \in 0..(Len(PatternBytes) - 1)}

\* Arrays: without a null buffer, or with one whose first row is at bit
\* `offset` of the validity buffer (a slice of a longer array has offset > 0).
Arrays ==
    {[len |-> n, nulls |-> FALSE, validity |-> <<>>, offset |-> 0] : n \in ArrayLens}
        \cup UNION {UNION {
                 {[len |-> n, nulls |-> TRUE, validity |-> v, offset |-> o] :
                     v \in ValidityBuffers((o + n + 7) \div 8)} :
                 o \in {0, 3}} : n \in ArrayLens}

\* array.is_null(row), rows counted from 0
IsNull(arr, row) ==
    /\ arr.nulls
    /\ (arr.validity[((arr.offset + row) \div 8) + 1]
            \div (2 ^ ((arr.offset + row) % 8))) % 2 = 0

InitNulls ==
    /\ FrameIdle
    /\ ReaderIdle
    /\ SparseIdle
    /\ ExpandIdle
    /\ BitmapIdle
    /\ PoolIdle
    /\ VarintIdle
    /\ type_hint \in TypeHints
    /\ array \in Arrays
    /\ values_bytes \in {<<>>, <<9, 9>>}
    /\ null_writer = <<>>
    /\ null_writes = <<>>
    /\ null_mask = <<>>
    /\ null_call = "start"

NullsOthers ==
    <<FrameVars, ReaderVars, SparseVars, ExpandVars, BitmapVars, PoolVars, VarintVars>>

\* prepare_null_bitmap(&array) on one of the targets
CallPrepareNullBitmap ==
    /\ null_call = "start"
    /\ \E target \in Targets : null_mask' = PrepareNullBitmap(target, array)
    /\ null_call' = "prepare_null_bitmap"
    /\ UNCHANGED <<type_hint, array, values_bytes, null_writer, null_writes>>
    /\ UNCHANGED NullsOthers

\* write_nullable_vectored(&type_hint, &mut writer, &array, values_bytes)
CallWriteNullableVectored ==
    /\ null_call = "start"
    /\ \E target \in Targets :
          /\ null_writes' = NullableVectoredWrites(target, type_hint, array, values_bytes)
          /\ null_writer' = WriteNullableVectored(target, type_hint, array, values_bytes)
    /\ null_call' = "write_nullable_vectored"
    /\ UNCHANGED <<type_hint, array, values_bytes, null_mask>>
    /\ UNCHANGED NullsOthers

\* serialize_nulls_async(&type_hint, &mut writer, &array, &mut state)
CallSerializeNullsAsync ==
    /\ null_call = "start"
    /\ \E target \in Targets :
          /\ null_writer' = SerializeNullsAsync(target, type_hint, array)
          /\ null_writes' = MaskWrite("write_all", SerializeNullsAsync(target, type_hint, array))
    /\ null_call' = "serialize_nulls_async"
    /\ UNCHANGED <<type_hint, array, values_bytes, null_mask>>
    /\ UNCHANGED NullsOthers

\* serialize_nulls(&type_hint, &mut writer, &array, &mut state)
CallSerializeNulls ==
    /\ null_call = "start"
    /\ \E target \in Targets :
          /\ null_writer' = SerializeNulls(target, type_hint, array)
          /\ null_writes' = MaskWrite("put_slice", SerializeNulls(target, type_hint, array))
    /\ null_call' = "serialize_nulls"
    /\ UNCHANGED <<type_hint, array, values_bytes, null_mask>>
    /\ UNCHANGED NullsOthers

NextNulls ==
    \/ CallPrepareNullBitmap
    \/ CallWriteNullableVectored
    \/ CallSerializeNullsAsync
    \/ CallSerializeNulls

SpecNulls == InitNulls /\ [][NextNulls]_vars

----------------------------------------------------------------------------
(* Varints: encode_varint and decode_varint of simd.rs *)

\* Longest slice handed to decode_varint.
MaxVarintInput == 12

\* value < 0x80
BelowContinuation(v) == \A i \in 2..U64Groups : v[i] = 0

\* value >>= 7
ShiftRight7(v) == [i \in 1..U64Groups |-> IF i < U64Groups THEN v[i + 1] ELSE 0]

\* (value as u8) | 0x80
LowByteContinued(v) == v[1] + 128

\* loop { if value < 0x80 { buf[pos] = value as u8; return pos + 1; }
\*        buf[pos] = (value as u8) | 0x80; value >>= 7; pos += 1; }
RECURSIVE EncodeLoop(_, _, _)
EncodeLoop(v, into, pos) ==
    IF BelowContinuation(v)
    THEN [buf |-> [into EXCEPT ![pos + 1] = v[1]], n |-> pos + 1]
    ELSE EncodeLoop(ShiftRight7(v), [into EXCEPT ![pos + 1] = LowByteContinued(v)],
                    pos + 1)

\* encode_varint(value, buf)
EncodeVarint(v, into) == EncodeLoop(v, into, 0)

\* byte & 0x7F, without the mask
LowSeven_Unmasked(byte) == byte

\* byte & 0x7F
LowSeven(byte) == byte % 128

\* byte < 0x80, taking 0x80 too
EndsVarint_Inclusive(byte) == byte <= 128

\* byte < 0x80
EndsVarint(byte) == byte < 128

\* result |= u64::from(byte & 0x7F) << shift, shift being 7 * i: the bits
\* shifted past bit 63 are lost, which leaves the tenth byte its lowest bit.
OrShifted(result, byte, i) ==
    [result EXCEPT ![i + 1] = IF i + 1 = U64Groups THEN LowSeven(byte) % 2
                              ELSE LowSeven(byte)]

\* for (i, &byte) in buf.iter().enumerate().skip(1).take(9) { ... } None
RECURSIVE DecodeLoop(_, _, _)
DecodeLoop(bytes, result, i) ==
    IF i >= Len(bytes) \/ i >= 1 + 9 THEN NoVarint
    ELSE LET next == OrShifted(result, bytes[i + 1], i)
         IN  IF EndsVarint(bytes[i + 1])
             THEN [some |-> TRUE, value |-> next, consumed |-> i + 1]
             ELSE DecodeLoop(bytes, next, i + 1)

\* decode_varint(buf)
DecodeVarint(bytes) ==
    IF bytes = <<>> THEN NoVarint
    ELSE IF EndsVarint(bytes[1])
    THEN [some |-> TRUE, value |-> [ToU64(0) EXCEPT ![1] = bytes[1]], consumed |-> 1]
    ELSE DecodeLoop(bytes, [ToU64(0) EXCEPT ![1] = LowSeven(bytes[1])], 1)

\* The u64 values given to encode_varint: every 7-bit group is 0, 1 or all
\* ones, and the tenth group is bit 63.
VarintValues ==
    {v \in [1..U64Groups -> {0, 1, 127}] : v[U64Groups] \in {0, 1}}

\* The slices given to decode_varint: some bytes with the continuation bit,
\* then possibly a byte without it, then possibly more bytes.
VarintInputs ==
    {s \in UNION {
         {[i \in 1..k |-> c] \o t \o u :
             c \in {128, 129, 255},
             t \in {<<>>, <<0>>, <<1>>, <<127>>},
             u \in {<<>>, <<5>>, <<200, 3>>}} : k \in 0..MaxVarintInput} :
        Len(s) <= MaxVarintInput}

InitVarint ==
    /\ FrameIdle
    /\ ReaderIdle
    /\ SparseIdle
    /\ ExpandIdle
    /\ BitmapIdle
    /\ PoolIdle
    /\ NullsIdle
    /\ \/ /\ varint_value \in VarintValues
          /\ varint_buf \in {[i \in 1..U64Groups |-> 0], [i \in 1..U64Groups |-> 255]}
          /\ varint_pc = "value"
       \/ /\ varint_value = <<>>
          /\ varint_buf \in VarintInputs
          /\ varint_pc = "bytes"
    /\ varint_n = 0
    /\ varint_out = NoVarint

VarintOthers ==
    <<FrameVars, ReaderVars, SparseVars, ExpandVars, BitmapVars, PoolVars, NullsVars>>

\* let len = encode_varint(value, &mut buf)
CallEncodeVarint ==
    /\ varint_pc = "value"
    /\ varint_buf' = EncodeVarint(varint_value, varint_buf).buf
    /\ varint_n' = EncodeVarint(varint_value, varint_buf).n
    /\ varint_pc' = "encoded"
    /\ UNCHANGED <<varint_value, varint_out>>
    /\ UNCHANGED VarintOthers

\* decode_varint(&buf[..len]) on what encode_varint wrote
CallDecodeEncoded ==
    /\ varint_pc = "encoded"
    /\ varint_out' = DecodeVarint(SubSeq(varint_buf, 1, varint_n))
    /\ varint_pc' = "decoded"
    /\ UNCHANGED <<varint_value, varint_buf, varint_n>>
    /\ UNCHANGED VarintOthers

\* decode_varint(buf) on a slice from elsewhere
CallDecodeVarint ==
    /\ varint_pc = "bytes"
    /\ varint_out' = DecodeVarint(varint_buf)
    /\ varint_pc' = "decoded"
    /\ UNCHANGED <<varint_value, varint_buf, varint_n>>
    /\ UNCHANGED VarintOthers

NextVarint == CallEncodeVarint \/ CallDecodeEncoded \/ CallDecodeVarint

SpecVarint == InitVarint /\ [][NextVarint]_vars

----------------------------------------------------------------------------
(* Properties of the frame codec *)

\* The writer holds exactly what compress_data wrote for (raw, compression).
Untouched == writer = CompressData(raw, compression)

\* The writer holds a frame of compress_data whose checksum field alone differs.
ChecksumTampered ==
    /\ Len(writer) = Len(CompressData(raw, compression))
    /\ Len(writer) >= 16
    /\ SubSeq(writer, 1, 16) # SubSeq(CompressData(raw, compression), 1, 16)
    /\ SubSeq(writer, 17, Len(writer))
           = SubSeq(CompressData(raw, compression), 17, Len(writer))

\* C1: decoding, with expected method M in {LZ4, ZSTD}, the bytes the encoder
\* wrote for (P, M) returns exactly P, the empty payload included.
C1_RoundTrip ==
    (/\ frame_pc = "decoded"
     /\ compression \in {"LZ4", "ZSTD"}
     /\ expected = compression
     /\ Untouched)
    => (decoded.kind = "Ok" /\ decoded.value = raw)

C1_Witness ==
    /\ frame_pc = "decoded"
    /\ compression = "ZSTD"
    /\ expected = "ZSTD"
    /\ Untouched
    /\ raw = <<>>
    /\ decoded.kind = "Ok"

\* C6: a frame whose stored checksum differs from the digest of header and
\* payload (one flipped bit of the 16-byte field) fails to decode with the
\* Protocol error "Checksum mismatch" and yields no payload.
C6_ChecksumTamper ==
    (/\ frame_pc = "decoded"
     /\ compression \in {"LZ4", "ZSTD"}
     /\ expected = compression
     /\ ChecksumTampered)
    => (/\ decoded.kind = "Protocol"
        /\ decoded.msg = "Checksum mismatch"
        /\ decoded.value = <<>>)

C6_Witness ==
    /\ frame_pc = "decoded"
    /\ compression = "LZ4"
    /\ expected = "LZ4"
    /\ ChecksumTampered
    /\ writer[1] # CompressData(raw, compression)[1]
    /\ decoded.msg = "Checksum mismatch"

----------------------------------------------------------------------------
(* Properties of the streaming reader *)

\* C2: the bytes delivered by successive reads, in call order, are a prefix of
\* the frames' payloads concatenated in stream order.
C2_DeliveredIsPrefix == IsPrefix(delivered, Flatten(payloads))

\* Two non-empty frames, read to the last byte.
C2_Witness ==
    /\ Len(payloads) = 2
    /\ Len(payloads[1]) = 2
    /\ Len(payloads[2]) = 1
    /\ delivered = Flatten(payloads)
    /\ last_read.n = 1

----------------------------------------------------------------------------
(* Properties of the sparse offsets reader *)

\* C3: whatever num_rows and the carry state, each call consumes the varints
\* of its granule up to and including the end-of-granule one and no byte more:
\* after k calls the reader stands right behind the offsets of the k-th granule.
C3_StreamAligned ==
    sparse_ok => reader_pos = Len(EncodeGranules(SubSeq(granules, 1, calls)))

\* A window that ends before two non-default rows of the granule, entered with
\* a carry state that is not empty.
C3_Witness ==
    /\ calls = 2
    /\ sparse_ok
    /\ state_in # EmptyState
    /\ granules[2] = <<FALSE, TRUE, TRUE>>
    /\ num_rows = 1
    /\ reader_pos = Len(EncodeGranules(granules))

\* C4: a whole granule read from the empty carry state (num_rows = |G|) returns
\* the positions of its non-default rows in increasing order and leaves the
\* carry state empty.
C4_WholeGranule ==
    (/\ calls >= 1
     /\ sparse_ok
     /\ state_in = EmptyState
     /\ num_rows = Len(granules[calls]))
    => (offsets = Positions(granules[calls]) /\ state = EmptyState)

C4_Witness ==
    /\ calls = 1
    /\ sparse_ok
    /\ state_in = EmptyState
    /\ granules[1] = <<TRUE, FALSE, TRUE>>
    /\ num_rows = 3
    /\ offsets = <<0, 2>>
    /\ state = EmptyState

----------------------------------------------------------------------------
(* Properties of the dense materialization *)

SupportedTypes ==
    PrimitiveTypes \cup StringTypes \cup BinaryTypes \cup {"Boolean", "FixedSizeBinary"}

\* The non-null default of a type: zero, false, the empty string, the empty
\* binary, or size zero bytes.
C5_Default(type) ==
    CASE type.name \in StringTypes -> ""
      [] type.name \in BinaryTypes -> <<>>
      [] type.name = "Boolean" -> FALSE
      [] type.name = "FixedSizeBinary" -> [i \in 1..type.size |-> 0]
      [] OTHER -> 0

\* C5: for a supported type and positions that are all below total_rows, the
\* expanded array has total_rows rows; row P[j] is null when S[j] is null and
\* holds S[j]'s value otherwise; every other row holds the type's default and
\* is not null.
C5_DenseRows ==
    (/\ expanded # NotCalled
     /\ data_type.name \in SupportedTypes
     /\ \A j \in 1..Len(positions) : positions[j] < total_rows)
    => /\ expanded.kind = "Ok"
       /\ Len(expanded.array) = total_rows
       /\ \A j \in 1..Len(positions) :
             expanded.array[positions[j] + 1] = sparse_array[j]
       /\ \A i \in 0..(total_rows - 1) :
             (\A j \in 1..Len(positions) : positions[j] # i)
             => expanded.array[i + 1] = [null |-> FALSE, value |-> C5_Default(data_type)]

\* A fixed-size binary column with a null and a value among defaults.
C5_Witness ==
    /\ expanded.kind = "Ok"
    /\ data_type.name = "FixedSizeBinary"
    /\ total_rows = 3
    /\ positions = <<0, 2>>
    /\ sparse_array[1].null
    /\ ~sparse_array[2].null
    /\ expanded.array[2] = [null |-> FALSE, value |-> <<0, 0>>]

----------------------------------------------------------------------------
(* Properties of the null bitmap expansion *)

\* Bit i of the bitmap, least significant bit first within each byte.
C7_Bit(i) == (bitmap[(i \div 8) + 1] \div (2 ^ (i % 8))) % 2

\* C7: after expand_null_bitmap, output[i] for i < len is 1 if bit i of the
\* bitmap is 0 and 0 otherwise, and every byte from index len on is unchanged.
C7_ValidityExpansion ==
    path \in {"scalar", "avx2", "neon"}
    => /\ Len(output) = Len(output_in)
       /\ \A i \in 0..(len - 1) : output[i + 1] = IF C7_Bit(i) = 0 THEN 1 ELSE 0
       /\ \A i \in len..(Len(output) - 1) : output[i + 1] = output_in[i + 1]

\* A len that is no multiple of 8, with room left behind it in the output.
C7_Witness ==
    /\ path = "scalar"
    /\ len = 5
    /\ bitmap = <<31>>
    /\ output = <<0, 0, 0, 0, 0, 255, 255, 255>>

\* C8: the 32-values-per-iteration paths write exactly the bytes that
\* expand_null_bitmap_scalar writes for the same bitmap, output and len.
C8_PathEquivalence ==
    path \in {"avx2", "neon"} => output = ExpandNullBitmapScalar(bitmap, output_in, len)

\* Two full chunks and a tail that is no multiple of 8.
C8_Witness ==
    /\ path = "avx2"
    /\ len = 66
    /\ output # output_in
    /\ output = ExpandNullBitmapScalar(bitmap, output_in, len)

----------------------------------------------------------------------------
(* Properties of the buffer pool *)

\* C9: in every reachable pool state, BufferPool::get(c) returns a buffer
\* with capacity >= c and length 0.
C9_Acquire ==
    (pool_op.op = "get" /\ pool_op.kind = "Ok")
    => (U64Leq(pool_op.request, pool_op.buf.capacity) /\ pool_op.buf.len = 0)

\* A request above 1 << 63 answered, where overflow is not checked, with a
\* buffer of capacity 0.
C9_Witness ==
    /\ pool_op.op = "get"
    /\ pool_op.kind = "Ok"
    /\ pool_op.request = UsizeMax
    /\ pool_op.buf.capacity = ToU64(0)

\* The same for requests up to 1 << 63, where next_power_of_two does not overflow.
C9_AcquireBelowOverflow ==
    (pool_op.op = "get" /\ pool_op.kind = "Ok" /\ U64Leq(pool_op.request, OneBit(63)))
    => (U64Leq(pool_op.request, pool_op.buf.capacity) /\ pool_op.buf.len = 0)

\* A get that directly follows a put and asks for a capacity of the tier of
\* the buffer that was put.
C10_GetAfterPut ==
    /\ pool_op.op = "get"
    /\ pool_op.follows_put
    /\ BucketForSize(pool_op.request) = BucketForSize(pool_op.put_buf.capacity)

C10_SameStorage == pool_op.kind = "Ok" /\ pool_op.buf.id = pool_op.put_buf.id

\* C10 as stated: after a buffer is released with put, a subsequent get whose
\* requested capacity maps to the same tier returns the released buffer.
C10_ReuseAlways == C10_GetAfterPut => C10_SameStorage

\* C10 as the pool behaves: the get that follows the put returns the released
\* buffer exactly when the buffer was queued at the front of its tier (its
\* capacity is at least 512 and the tier was empty) and its capacity covers the
\* request.
C10_Reuse ==
    C10_GetAfterPut
    => (C10_SameStorage
        <=> /\ pool_op.put_slot = 1
            /\ U64Leq(pool_op.request, pool_op.put_buf.capacity))

\* A buffer of capacity 1024 comes back with data in it and the next get for
\* 600 bytes returns it, cleared.
C10_Witness ==
    /\ C10_GetAfterPut
    /\ C10_SameStorage
    /\ pool_op.put_buf.len = 5
    /\ pool_op.request = ToU64(600)
    /\ pool_op.buf.capacity = ToU64(TINY)
    /\ pool_op.buf.len = 0

\* A buffer as the pool may keep it: at least 512 bytes of capacity.
C11_Poolable(buf) == U64Leq(ToU64(TINY \div 2), buf.capacity)

\* C11: in every reachable state each of the five tiers holds at most 32
\* buffers and no buffer whose capacity is below 512 bytes.
C11_PoolBound ==
    \A bucket \in 1..Len(pools) :
        /\ Len(pools[bucket]) <= MAX_POOL_SIZE
        /\ \A k \in 1..Len(pools[bucket]) : C11_Poolable(pools[bucket][k])

\* A buffer of poolable capacity was put to the full Tiny tier and dropped.
C11_Witness ==
    /\ pool_op.op = "put"
    /\ pool_op.slot = 0
    /\ C11_Poolable(pool_op.buf)
    /\ Len(pools[1]) = MAX_POOL_SIZE

----------------------------------------------------------------------------
(* Properties of the streaming reader: errors, end of stream, drop *)

\* The last read had room in its buffer, returned Ok, and an earlier read of
\* the reader had returned an error.
C12_OkAfterError == errored /\ last_read.remaining > 0 /\ last_read.res = "Ok"

\* C12: once a read has returned an error, no later read with a non-empty
\* output buffer returns decoded bytes or a clean end of stream (Ok with 0 bytes).
C12_TerminalError == ~C12_OkAfterError

\* After an error a later read returns no decoded bytes.
C12_NoBytesAfterError == C12_OkAfterError => last_read.n = 0

\* A frame of the stream was damaged, a read failed on it, and the next read
\* reported a clean end of stream.
C12_Witness ==
    /\ C12_OkAfterError
    /\ last_read.n = 0
    /\ stream # EncodeAll(payloads, mode)
    /\ Len(stream) = Len(EncodeAll(payloads, mode))

\* The stream is the frames as they were written, the last read found the
\* inner stream consumed and every decoded byte served, and had room in its buffer.
C13_ReadAtEnd ==
    /\ stream = EncodeAll(payloads, mode)
    /\ last_read.exhausted
    /\ last_read.remaining > 0

\* C13: when the inner stream has been fully consumed and every decoded byte
\* has been served, a read with a non-empty output buffer returns Ok with 0
\* bytes rather than an error.
C13_EndOfStream == C13_ReadAtEnd => (last_read.res = "Ok" /\ last_read.n = 0)

\* Both frames of the stream were served in full, and the read that followed
\* failed on the checksum of a frame that is not there.
C13_Witness ==
    /\ C13_ReadAtEnd
    /\ Len(payloads) = 2
    /\ delivered = Flatten(payloads)
    /\ last_read.res = "Err"
    /\ last_read.msg = "Failed to read checksum high"

\* The reader was dropped while the decode of the next frame was in flight,
\* over a stream of undamaged frames none of whose reads had failed.
C14_DroppedInFlight ==
    /\ reader_pc = "dropped"
    /\ block_reading_future
    /\ ~errored
    /\ stream = EncodeAll(payloads, mode)

\* C14: if the reader is dropped while the decode of the next frame is in
\* flight, the inner stream is left exactly at a frame boundary (or has
\* already failed), never part-way through a frame.
C14_Cancellation ==
    C14_DroppedInFlight => inner_pos \in FrameBoundaries(payloads, mode)

\* The decode that was dropped had read the checksum and the header of the
\* second frame and was waiting for its payload.
C14_Witness ==
    /\ C14_DroppedInFlight
    /\ Len(payloads) = 2
    /\ inner_pos = FrameStart(payloads, mode, 2) + 25

----------------------------------------------------------------------------
(* Properties of the frame codec: refused frames *)

\* The frame compress_data wrote with LZ4 was decoded with expected method None.
C15_Lz4AsNone ==
    /\ frame_pc = "decoded"
    /\ compression = "LZ4"
    /\ Untouched
    /\ expected = "None"

\* C15 as stated: decoding an LZ4 frame with expected method NONE fails with
\* error kind DeserializeError, and decode with expected method NONE never
\* returns a payload.
C15_NoneIsDeserializeError ==
    /\ C15_Lz4AsNone => decoded.kind = "DeserializeError"
    /\ (frame_pc = "decoded" /\ expected = "None") => decoded.kind # "Ok"

\* C15 as the decoder behaves: the LZ4 frame fails the method check with the
\* Protocol error "Unexpected compression algorithm"; DeserializeError is
\* returned only for a frame that carries NONE's own method byte; decode with
\* expected method NONE never returns a payload.
C15_NoneRejected ==
    /\ C15_Lz4AsNone
       => (decoded.kind = "Protocol" /\ decoded.msg = "Unexpected compression algorithm")
    /\ (frame_pc = "decoded" /\ expected = "None")
       => /\ decoded.kind # "Ok"
          /\ decoded.value = <<>>
          /\ decoded.kind = "DeserializeError"
             => (Len(writer) >= 17 /\ writer[17] = MethodByte("None"))

\* The LZ4 frame of a two-byte payload, refused for its method byte.
C15_Witness ==
    /\ C15_Lz4AsNone
    /\ Len(raw) = 2
    /\ decoded.kind = "Protocol"
    /\ decoded.msg = "Unexpected compression algorithm"
    /\ decoded.consumed = 17

\* A frame labelled NONE with a sound checksum, refused after the checksum.
C15_NoneFrameWitness ==
    /\ frame_pc = "decoded"
    /\ expected = "None"
    /\ decoded.kind = "DeserializeError"
    /\ decoded.msg = "Attempted to decompress uncompressed data"

\* C16: for every frame whose method byte differs from the byte of the
\* caller's expected method, decode fails with the Protocol error "Unexpected
\* compression algorithm", having read the checksum and the method byte only:
\* neither the size fields nor the payload.
C16_MethodMismatch ==
    (/\ frame_pc = "decoded"
     /\ Len(writer) >= 17
     /\ writer[17] # MethodByte(expected))
    => (/\ decoded.kind = "Protocol"
        /\ decoded.msg = "Unexpected compression algorithm"
        /\ decoded.value = <<>>
        /\ decoded.consumed = 17)

\* A ZSTD frame with sound checksum and sizes, decoded with expected method LZ4.
C16_Witness ==
    /\ frame_pc = "decoded"
    /\ compression = "ZSTD"
    /\ Untouched
    /\ Len(raw) = 1
    /\ expected = "LZ4"
    /\ decoded.kind = "Protocol"
    /\ decoded.consumed = 17

\* The size fields of the frame in the writer.
C17_CompressedSize == FromU32LE(SubSeq(writer, 18, 21))
C17_DecompressedSize == FromU32LE(SubSeq(writer, 22, 25))

\* The decode got as far as the size fields of the frame.
C17_HeaderRead ==
    /\ frame_pc = "decoded"
    /\ Len(writer) >= 25
    /\ writer[17] = MethodByte(expected)

C17_Refused ==
    /\ decoded.kind = "Protocol"
    /\ decoded.msg = "Chunk size too large"
    /\ decoded.consumed = 25

\* C17: a frame whose header has compressed_size < 9, compressed_size >
\* 100_000_000 or decompressed_size > 1_000_000_000 is refused with the
\* Protocol error "Chunk size too large", before its payload is read.
C17_SizeLimits ==
    (/\ C17_HeaderRead
     /\ \/ C17_CompressedSize < 9
        \/ C17_CompressedSize > MaxCompressedSize
        \/ C17_DecompressedSize > MaxDecompressedSize)
    => C17_Refused

\* The two upper limits alone.
C17_UpperLimits ==
    (/\ C17_HeaderRead
     /\ \/ C17_CompressedSize > MaxCompressedSize
        \/ C17_DecompressedSize > MaxDecompressedSize)
    => C17_Refused

\* A frame with compressed_size = 8 and a sound checksum: the decode panics.
C17_Witness ==
    /\ C17_HeaderRead
    /\ C17_CompressedSize = 8
    /\ C17_DecompressedSize = 0
    /\ decoded.kind = "Panic"

----------------------------------------------------------------------------
(* Properties of the dense materialization: unsupported types *)

\* C18: for every data type outside the supported set, expand_sparse_array
\* (called, as it asserts, with as many offsets as sparse values) returns an
\* Unimplemented error naming the data type and no array.
C18_Unsupported ==
    (/\ expanded # NotCalled
     /\ data_type.name \notin SupportedTypes
     /\ Len(sparse_array) = Len(positions))
    => (/\ expanded.kind = "Unimplemented"
        /\ expanded.names = data_type.name
        /\ expanded.array = <<>>)

\* A map column of three rows with two sparse values.
C18_Witness ==
    /\ expanded.kind = "Unimplemented"
    /\ data_type.name = "Map"
    /\ total_rows = 3
    /\ Len(positions) = 2


----------------------------------------------------------------------------
(* Properties of the null masks *)

\* The type hint is Array or Map once an outer Nullable is taken off.
C19_Container == type_hint.inner \in {"Array", "Map"}

\* C19: for a type hint that is Array or Map after an outer Nullable is
\* stripped, serialize_nulls and serialize_nulls_async write no byte and
\* write_nullable_vectored writes the value bytes and nothing else, whatever
\* the array holds, null rows included.
C19_ContainerTypes ==
    C19_Container =>
        /\ null_call \in {"serialize_nulls", "serialize_nulls_async"}
              => null_writer = <<>>
        /\ null_call = "write_nullable_vectored" => null_writer = values_bytes

\* serialize_nulls got a Nullable(Map(..)) hint and an array with a null row
\* and wrote nothing.
C19_Witness ==
    /\ null_call = "serialize_nulls"
    /\ type_hint = [nullable |-> TRUE, inner |-> "Map"]
    /\ array.len = 3
    /\ IsNull(array, 1)
    /\ null_writer = <<>>

\* The mask of the array: one byte per row, 1 for a null row and 0 otherwise.
C20_Mask == [i \in 1..array.len |-> IF IsNull(array, i - 1) THEN 1 ELSE 0]

\* C20: for a type hint that is not a container and an array whose validity
\* bitmap, if it has one, starts at bit offset 0, serialize_nulls and
\* serialize_nulls_async write, and prepare_null_bitmap returns, exactly one
\* byte per row, 1 for a null row and 0 for a valid one: all zeros without a
\* validity bitmap, and nothing at all for an array of no rows.
C20_NullMaskContents ==
    (~C19_Container /\ array.offset = 0) =>
        /\ null_call \in {"serialize_nulls", "serialize_nulls_async"}
              => null_writer = C20_Mask
        /\ null_call = "prepare_null_bitmap" => null_mask = C20_Mask

\* serialize_nulls_async wrote <<0, 1, 0>> for a Nullable(Int32) array of
\* three rows whose middle row is null.
C20_Witness ==
    /\ null_call = "serialize_nulls_async"
    /\ type_hint = [nullable |-> TRUE, inner |-> "Int32"]
    /\ array.len = 3
    /\ array.offset = 0
    /\ ~IsNull(array, 0) /\ IsNull(array, 1) /\ ~IsNull(array, 2)
    /\ null_writer = <<0, 1, 0>>


----------------------------------------------------------------------------
(* Properties of the varints *)

\* C21: for every u64 value, encode_varint writes n bytes, 1 <= n <= 10, with
\* n = 1 exactly for a value below 0x80, byte i carrying the i-th group of 7
\* bits from the least significant end, and 0x80 set on every byte but the
\* last; decode_varint on those n bytes returns the value and n.
C21_VarintRoundTrip ==
    /\ varint_pc = "encoded" \/ (varint_pc = "decoded" /\ varint_value # <<>>)
          => /\ varint_n \in 1..10
             /\ (varint_n = 1) <=> (\A i \in 2..10 : varint_value[i] = 0)
             /\ \A i \in 1..varint_n :
                   /\ varint_buf[i] % 128 = varint_value[i]
                   /\ (varint_buf[i] >= 128) <=> (i < varint_n)
             /\ \A i \in (varint_n + 1)..10 : varint_value[i] = 0
    /\ (varint_pc = "decoded" /\ varint_value # <<>>)
          => varint_out = [some |-> TRUE, value |-> varint_value,
                           consumed |-> varint_n]

\* u64::MAX went through encode_varint as ten bytes and came back.
C21_Witness ==
    /\ varint_pc = "decoded"
    /\ varint_value = [i \in 1..10 |-> IF i = 10 THEN 1 ELSE 127]
    /\ varint_n = 10
    /\ varint_out.some
    /\ varint_out.value = varint_value

\* The first byte of the slice without the continuation bit, among the first
\* ten; 0 if there is none.
C22_End ==
    IF \E i \in 1..Len(varint_buf) : i <= 10 /\ varint_buf[i] < 128
    THEN CHOOSE i \in 1..Len(varint_buf) :
             /\ i <= 10
             /\ varint_buf[i] < 128
             /\ \A j \in 1..(i - 1) : varint_buf[j] >= 128
    ELSE 0

\* C22: decode_varint returns None for a slice that is empty, that ends on a
\* byte with the continuation bit, or whose first ten bytes all have it;
\* otherwise it returns the count of bytes up to and including the first one
\* without the continuation bit, whatever follows that byte.
C22_DecodeFailure ==
    (varint_pc = "decoded" /\ varint_value = <<>>)
        => IF C22_End = 0
           THEN ~varint_out.some
           ELSE /\ varint_out.some
                /\ varint_out.consumed = C22_End
                /\ \A i \in 1..9 :
                      varint_out.value[i]
                          = IF i <= C22_End THEN varint_buf[i] % 128 ELSE 0

\* Ten bytes with the continuation bit and then one without: None.
C22_Witness ==
    /\ varint_pc = "decoded"
    /\ varint_value = <<>>
    /\ Len(varint_buf) = 11
    /\ \A i \in 1..10 : varint_buf[i] >= 128
    /\ varint_buf[11] < 128
    /\ ~varint_out.some


----------------------------------------------------------------------------
(* Properties of the encoders *)

\* C23: with method None every encoder (compress_data, compress_data_sync,
\* compress_data_pooled) returns Ok and writes no byte, whatever the payload.
C23_NoneWritesNothing ==
    (frame_pc = "written" /\ compression = "None")
        => /\ compress_call.kind = "Ok"
           /\ writer = <<>>

\* compress_data_sync was given a two-byte payload and None and wrote nothing.
C23_Witness ==
    /\ frame_pc = "written"
    /\ compression = "None"
    /\ compress_call = [variant |-> "compress_data_sync", kind |-> "Ok"]
    /\ Len(raw) = 2
    /\ writer = <<>>

\* The compressed payload of the frame in the writer: all after 25 bytes.
C24_Payload == SubSeq(writer, 26, Len(writer))

\* C24: for LZ4 and ZSTD every encoder writes the high 64 bits of the
\* checksum (u64 LE), the low 64 bits (u64 LE), the method byte (0x82, 0x90),
\* the length of the compressed payload plus 9 (u32 LE), the length of the raw
\* payload (u32 LE) and the compressed payload, 25 bytes and the payload in
\* all; the checksum is CityHash128 of the bytes from offset 16 on; and the
\* three encoders write the same bytes for the same input.
C24_WireLayout ==
    (frame_pc = "written" /\ compression \in {"LZ4", "ZSTD"})
        => /\ Len(writer) = 25 + Len(C24_Payload)
           /\ SubSeq(writer, 1, 8)
                  = Reverse(SubSeq(CityHash128(SubSeq(writer, 17, Len(writer))), 1, 8))
           /\ SubSeq(writer, 9, 16)
                  = Reverse(SubSeq(CityHash128(SubSeq(writer, 17, Len(writer))), 9, 16))
           /\ writer[17] = (IF compression = "LZ4" THEN 130 ELSE 144)
           /\ FromU32LE(SubSeq(writer, 18, 21)) = Len(C24_Payload) + 9
           /\ FromU32LE(SubSeq(writer, 22, 25)) = Len(raw)
           /\ C24_Payload = (IF compression = "LZ4" THEN Lz4Compress(raw)
                             ELSE ZstdCompress(raw))
           /\ writer = CompressData(raw, compression)
           /\ writer = CompressDataSync(raw, compression)
           /\ writer = CompressDataPooled(raw, compression)

\* compress_data_pooled wrote the ZSTD frame of a two-byte payload.
C24_Witness ==
    /\ frame_pc = "written"
    /\ compression = "ZSTD"
    /\ compress_call.variant = "compress_data_pooled"
    /\ Len(raw) = 2
    /\ Len(writer) = 25 + 9 + 2
    /\ writer[17] = 144


----------------------------------------------------------------------------
(* Properties of the pooled buffers *)

\* The storage with this identity is in one of the queues.
C25_Queued(id) ==
    \E bucket \in 1..Len(pools) : \E k \in 1..Len(pools[bucket]) :
        pools[bucket][k].id = id

\* C25: the lifetime of a PooledBuffer ends with exactly one BufferPool::put
\* of its storage, on a plain drop and on each exit of compress_data_pooled
\* (the return of the None arm, the error return, the early drop); after
\* take() there is no put and the storage never enters a queue; and the
\* storage of a live handle is in no queue.
C25_PooledScoping ==
    /\ \A k \in 1..Len(ends) :
          IF ends[k].how = "take"
          THEN ends[k].puts = 0 /\ ~C25_Queued(ends[k].id)
          ELSE ends[k].puts = 1
    /\ \A b \in held : ~C25_Queued(b.id)

\* A handle ended on the None return of compress_data_pooled with one put,
\* which queued its storage.
C25_Witness ==
    \E k \in 1..Len(ends) :
        /\ ends[k].how = "early_return"
        /\ ends[k].puts = 1
        /\ C25_Queued(ends[k].id)


\* The queue put chooses for a capacity: the first whose ceiling (1 KiB,
\* 4 KiB, 64 KiB, 1 MiB, none) is not below it.
C26_Tier(capacity) ==
    IF U64Leq(capacity, ToU64(1024)) THEN 1
    ELSE IF U64Leq(capacity, ToU64(4096)) THEN 2
    ELSE IF U64Leq(capacity, ToU64(65536)) THEN 3
    ELSE IF U64Leq(capacity, ToU64(1048576)) THEN 4
    ELSE 5

\* What one put(buf) does to the queues.
C26_PutStep ==
    (pool_op'.op = "put" /\ ops' = ops + 1)
        => LET buf == pool_op'.buf
               tier == C26_Tier(buf.capacity)
           IN  IF ~U64Leq(ToU64(512), buf.capacity) THEN pools' = pools
               ELSE /\ \A other \in (1..5) \ {tier} : pools'[other] = pools[other]
                    /\ IF Len(pools[tier]) < 32
                       THEN pools'[tier] = Append(pools[tier], buf)
                       ELSE pools'[tier] = pools[tier]

\* C26: put(buf) leaves every queue as it is when the capacity of buf is
\* below 512; otherwise only the first queue whose ceiling (1 KiB, 4 KiB,
\* 64 KiB, 1 MiB, unbounded) is at least the capacity can change: it gains buf,
\* capacity unchanged, at its back if it held fewer than 32 buffers, and stays
\* as it is if it held 32.
C26_ReleaseEffect == [][C26_PutStep]_vars

\* A buffer of 1 KiB was put while the first queue held 32 buffers, and was
\* discarded.
C26_Witness ==
    /\ pool_op.op = "put"
    /\ pool_op.buf.capacity = ToU64(1024)
    /\ pool_op.slot = 0
    /\ Len(pools[1]) = 32


----------------------------------------------------------------------------
(* Properties of the streaming reader: frames in order *)

\* A read finds decoded bytes it has not served yet.
C27_Unread == reader_pc = "open" /\ position < Len(decompressed)

\* What a read does that finds unread bytes: the inner stream stays where it
\* is and no decode is started.
C27_ReadStep ==
    (C27_Unread /\ arrived' = arrived /\ reader_pc' = reader_pc)
        => /\ inner_pos' = inner_pos
           /\ fut_start' = fut_start
           /\ block_reading_future' = block_reading_future
           /\ inner' = inner

\* C27: a decode of the next frame is in flight only when every byte of the
\* current frame has been served; a read that finds unread bytes takes
\* nothing from the inner stream and starts no decode; the reader never holds
\* the inner stream and an in-flight decode together.
C27_NoPipelining ==
    /\ [](block_reading_future => position = Len(decompressed))
    /\ [](~(inner /\ block_reading_future))
    /\ [][C27_ReadStep]_vars

\* The decode of the second frame is in flight, after every byte of the
\* first, which had two, was served.
C27_Witness ==
    /\ reader_pc = "open"
    /\ block_reading_future
    /\ ~inner
    /\ Len(decompressed) = 2
    /\ position = 2
    /\ delivered = decompressed
    /\ Len(payloads) = 2


\* The decode of the first frame of the stream, all of its bytes being there.
C30_First == DecompressDataAsync(stream, TRUE, mode)

\* The reader was constructed and has not been read from yet.
C30_Fresh == reader_pc = "open" /\ last_read.res = "None"

\* The number of bytes a read with room for r bytes serves from the buffer.
C30_Served(r) ==
    IF Len(decompressed) - position < r THEN Len(decompressed) - position ELSE r

\* What a read with room for at least one byte does when it finds unread bytes.
C30_IdleStep ==
    (/\ reader_pc = "open" /\ reader_pc' = reader_pc /\ arrived' = arrived
     /\ position < Len(decompressed)
     /\ vars' # vars
     /\ last_read'.remaining >= 1)
        => /\ last_read'.res = "Ok"
           /\ last_read'.n = C30_Served(last_read'.remaining)
           /\ delivered' = delivered
                  \o [k \in 1..C30_Served(last_read'.remaining) |->
                         decompressed[position + k]]
           /\ position' = position + C30_Served(last_read'.remaining)
           /\ decompressed' = decompressed
           /\ inner_pos' = inner_pos

\* C30: position is between 0 and decompressed.len in every state; a read with
\* room for r >= 1 bytes that finds unread bytes copies min(decompressed.len -
\* position, r) bytes from position on, advances position by as many and
\* leaves the inner stream alone; a reader just constructed holds the whole
\* first frame at position 0; and no reader exists if the first frame failed
\* to decode.
C30_IdleAndPosition ==
    /\ [](position >= 0 /\ position <= Len(decompressed))
    /\ [](C30_Fresh => /\ position = 0
                       /\ C30_First.kind = "Ok"
                       /\ decompressed = C30_First.value
                       /\ inner_pos = C30_First.consumed
                       /\ inner /\ ~block_reading_future)
    /\ []((reader_pc \in {"open", "dropped"}) => C30_First.kind = "Ok")
    /\ []((reader_pc = "failed") => C30_First.kind \notin {"Ok", "Pending"})
    /\ [][C30_IdleStep]_vars

\* A read with room for one byte served the first byte of a frame of two.
C30_Witness ==
    /\ reader_pc = "open"
    /\ Len(decompressed) = 2
    /\ position = 1
    /\ last_read = [res |-> "Ok", n |-> 1, msg |-> "", remaining |-> 1,
                    exhausted |-> FALSE]
    /\ delivered = <<decompressed[1]>>

\* Construction failed on a first frame whose checksum does not match.
C30_FailedWitness ==
    /\ reader_pc = "failed"
    /\ C30_First.msg = "Checksum mismatch"


----------------------------------------------------------------------------
(* Properties of the frame codec: consumption and order of the checks *)

\* The compressed_size field of the frame in the writer.
C28_CompressedSize == FromU32LE(SubSeq(writer, 18, 21))

\* Where the frame in the writer ends: after its 16 bytes of checksum and its
\* compressed_size bytes, which include the 9 bytes of the header.
C28_FrameEnd == 16 + (IF C28_CompressedSize < 9 THEN 9 ELSE C28_CompressedSize)

\* C28: a decode that succeeds has taken exactly 16 + compressed_size bytes
\* from the source, which leaves it at the first byte of what follows the
\* frame; no decode, succeeding or failing, takes a byte past the end of the
\* frame.
C28_FrameExact ==
    (frame_pc = "decoded" /\ Len(writer) >= 25)
        => /\ decoded.kind = "Ok" => decoded.consumed = 16 + C28_CompressedSize
           /\ decoded.consumed <= C28_FrameEnd
           /\ decoded.consumed <= Len(writer)

\* A frame of 26 bytes followed by 9 more was decoded: 26 bytes were taken.
C28_Witness ==
    /\ frame_pc = "decoded"
    /\ Len(writer) = 35
    /\ C28_CompressedSize = 10
    /\ decoded.kind = "Ok"
    /\ decoded.consumed = 26

\* The frame in the writer against the checks of the decode.
C29_MethodMismatch ==
    writer[17] # (CASE expected = "LZ4" -> 130 [] expected = "ZSTD" -> 144 [] OTHER -> 2)
C29_TooLarge ==
    \/ FromU32LE(SubSeq(writer, 18, 21)) > 100000000
    \/ FromU32LE(SubSeq(writer, 22, 25)) > 1000000000
C29_PayloadThere ==
    /\ FromU32LE(SubSeq(writer, 18, 21)) >= 9
    /\ Len(writer) >= 16 + FromU32LE(SubSeq(writer, 18, 21))
C29_ChecksumBad ==
    Reverse(SubSeq(writer, 1, 8)) \o Reverse(SubSeq(writer, 9, 16))
        # CityHash128(SubSeq(writer, 17, 16 + FromU32LE(SubSeq(writer, 18, 21))))

\* C29: the decode checks the method byte, then the size limits, then the
\* checksum, then decompresses: a frame with the wrong method byte gets the
\* method error whatever its sizes and checksum; one with the right method
\* and a size over its limit gets the size error whatever its checksum; one
\* that passes both and whose checksum does not match gets the checksum
\* error whatever its payload; and the decompressor runs only on a payload
\* whose checksum matches.
C29_ValidationOrder ==
    (frame_pc = "decoded" /\ Len(writer) >= 25)
        => /\ C29_MethodMismatch
                 => decoded.msg = "Unexpected compression algorithm"
           /\ (~C29_MethodMismatch /\ C29_TooLarge)
                 => decoded.msg = "Chunk size too large"
           /\ (~C29_MethodMismatch /\ ~C29_TooLarge /\ C29_PayloadThere
                  /\ C29_ChecksumBad)
                 => decoded.msg = "Checksum mismatch"
           /\ decoded.kind \in {"Ok", "DeserializeError"}
                 => /\ ~C29_MethodMismatch
                    /\ ~C29_TooLarge
                    /\ C29_PayloadThere
                    /\ ~C29_ChecksumBad

\* A frame with the wrong method byte, a compressed_size over the limit and
\* a checksum that does not match: the method error is reported.
C29_Witness ==
    /\ frame_pc = "decoded"
    /\ Len(writer) >= 25
    /\ C29_MethodMismatch
    /\ C29_TooLarge
    /\ writer[1] # PeerFrame(writer[17], FromU32LE(SubSeq(writer, 18, 21)),
                             FromU32LE(SubSeq(writer, 22, 25)), <<>>)[1]
    /\ Len(writer) = 25
    /\ decoded.msg = "Unexpected compression algorithm"


----------------------------------------------------------------------------
(* Properties of the streaming reader: reads into a full output buffer *)

\* A read of an open reader whose output buffer had no room left.
C31_ZeroRead ==
    /\ reader_pc = "open" /\ reader_pc' = reader_pc /\ arrived' = arrived
    /\ last_read'.remaining = 0

\* C31: a read whose output buffer has no remaining room returns Ok with no
\* bytes in every state of the reader, a decode in flight included: the inner
\* stream is not read, the decode in flight is not polled, and position,
\* buffer, inner reader and decode in flight stay as they were.
C31_ZeroLengthRead ==
    [][C31_ZeroRead =>
          /\ last_read'.res = "Ok"
          /\ last_read'.n = 0
          /\ delivered' = delivered
          /\ inner_pos' = inner_pos
          /\ position' = position
          /\ decompressed' = decompressed
          /\ inner' = inner
          /\ block_reading_future' = block_reading_future
          /\ fut_start' = fut_start]_vars

\* A read without room returned Ok while the decode of the second frame was
\* in flight and still short of bytes it could have taken from the stream.
C31_Witness ==
    /\ reader_pc = "open"
    /\ last_read.remaining = 0
    /\ last_read.res = "Ok"
    /\ block_reading_future
    /\ ~inner
    /\ DecodeAt(fut_start).kind = "Pending"
    /\ inner_pos < arrived


----------------------------------------------------------------------------
(* Properties of the sparse offsets: the carried state *)

\* The call read the offsets of a whole granule as the server wrote them, with
\* a carried run of defaults below 2^28.
C32_WholeGranule ==
    /\ calls = 1
    /\ IsSmall(state_in.num_trailing_defaults)
    /\ IsPrefix(EncodeOffsets(granules[1]), sparse_bytes)

\* The position at which the rows of the stream start: the carried defaults
\* and the carried value.
C32_Start ==
    FromU64(state_in.num_trailing_defaults)
        + (IF state_in.has_value_after_defaults THEN 1 ELSE 0)

\* The positions of the granule's values, moved by the start, that fall in the
\* window.
C32_Decoded ==
    SelectSeq([k \in 1..Len(Positions(granules[1])) |->
                  C32_Start + Positions(granules[1])[k]],
              LAMBDA q : q < num_rows)

\* The position the loop ends at: it does not move past a value beyond the
\* window.
C32_End ==
    C32_Start + Len(granules[1])
        - (Len(Positions(granules[1])) - Len(C32_Decoded))

----------------------------------------------------------------------------
(* Properties of the null masks: the vectored write *)

\* write_nullable_vectored has returned for a type that is no container.
C33_Plain == null_call = "write_nullable_vectored" /\ ~C19_Container

\* C33: for a type that is no container and an array of N > 0 rows,
\* write_nullable_vectored makes one vectored write of exactly two slices, the
\* null mask of N bytes first and the value bytes right behind it, and no
\* other write; for N = 0 it writes nothing.
C33_MaskBeforeValues ==
    /\ (C33_Plain /\ array.len > 0) =>
          /\ Len(null_writes) = 1
          /\ null_writes[1].call = "write_vectored_all"
          /\ Len(null_writes[1].bufs) = 2
          /\ Len(null_writes[1].bufs[1]) = array.len
          /\ \A i \in 1..array.len : null_writes[1].bufs[1][i] \in {0, 1}
          /\ null_writes[1].bufs[2] = values_bytes
          /\ SubSeq(null_writer, 1, array.len) = null_writes[1].bufs[1]
          /\ SubSeq(null_writer, array.len + 1, Len(null_writer)) = values_bytes
    /\ (C33_Plain /\ array.len = 0) => (null_writes = <<>> /\ null_writer = <<>>)

\* A mask of nine rows, some of them null, written ahead of two value bytes.
C33_Witness ==
    /\ C33_Plain
    /\ array.len = 9
    /\ array.nulls
    /\ values_bytes = <<9, 9>>
    /\ Len(null_writes) = 1
    /\ 1 \in {null_writes[1].bufs[1][i] : i \in 1..9}
    /\ 0 \in {null_writes[1].bufs[1][i] : i \in 1..9}
    /\ Len(null_writer) = 11


----------------------------------------------------------------------------
(* Properties of the shared pool under threads *)

\* How often an event of the log names a buffer.
C34_Count(ev, id) ==
    LET named == {e \in BagToSet(pool_log) : e.ev = ev /\ e.id = id}
    IN  IF named = {} THEN 0 ELSE CopiesIn(CHOOSE e \in named : TRUE, pool_log)

\* The buffers that stand in the queues.
C34_QueuedIds ==
    UNION {{pools[bucket][k].id : k \in 1..Len(pools[bucket])} : bucket \in 1..5}

\* The threads that are inside a put with the buffer.
C34_InPut(id) ==
    {t \in Threads : threads[t].pc \in {"put", "put_locked"} /\ threads[t].buf.id = id}

\* The buffers that have been with a caller: those of the log and of the
\* puts under way.
C34_Ids ==
    {e.id : e \in BagToSet(pool_log)}
        \cup {threads[t].buf.id : t \in {u \in Threads : threads[u].pc \in {"put", "put_locked"}}}

\* Some call is under way.
C34_Running == \E t \in Threads : threads[t].pc # "idle"

\* The queue whose mutex a thread is about to lock, -1 if it is about to
\* lock none.
C34_Wanted(t) ==
    IF threads[t].pc = "get" THEN BucketForSize(threads[t].cap)
    ELSE IF threads[t].pc = "put" THEN BucketForSize(threads[t].buf.capacity)
    ELSE IF threads[t].pc = "stats" /\ threads[t].k < 5 THEN threads[t].k
    ELSE -1

\* A thread inside a call can take its next step: it is not about to lock a
\* mutex, or the mutex lets it in.
C34_CanStep(t) ==
    /\ threads[t].pc # "idle"
    /\ IF C34_Wanted(t) = -1 THEN TRUE ELSE CanLock(locks, C34_Wanted(t))

\* C34: whatever the interleaving of get, put, prewarm and stats on two
\* threads, some call under way can always take its next step (no deadlock);
\* every buffer is in exactly one place - once in a queue, or with the caller
\* that holds it, or inside one put - unless it was dropped (no double hand-out,
\* no put lost or duplicated); and a put drops its buffer only below TINY / 2
\* or when it found its queue at MAX_POOL_SIZE.
C34_SharedPool ==
    /\ C34_Running => \E t \in Threads : C34_CanStep(t)
    /\ Cardinality(C34_QueuedIds)
          = Len(pools[1]) + Len(pools[2]) + Len(pools[3]) + Len(pools[4]) + Len(pools[5])
    /\ \A id \in C34_Ids :
          (IF id \in C34_QueuedIds THEN 1 ELSE 0)
            + (C34_Count("handed", id) + C34_Count("owned", id) - C34_Count("given", id))
            + Cardinality(C34_InPut(id))
            + C34_Count("dropped", id) + C34_Count("dropped_small", id)
          = 1
    /\ \A e \in BagToSet(pool_log) :
          e.ev = "dropped" =>
              IF U64Leq(ToU64(TINY \div 2), e.capacity)
              THEN e.seen = MAX_POOL_SIZE
              ELSE TRUE
    /\ \A bucket \in 1..5 : Len(pools[bucket]) <= MAX_POOL_SIZE

\* Two puts met at the Tiny queue with one place left: one buffer was queued,
\* the other found the queue full and was dropped, while a stats call held the
\* mutex of a queue.
C34_Witness ==
    /\ Len(pools[1]) = MAX_POOL_SIZE
    /\ \E e \in BagToSet(pool_log) : e.ev = "dropped" /\ e.seen = MAX_POOL_SIZE
    /\ \E t \in Threads : threads[t].pc = "stats" /\ threads[t].k >= 1


----------------------------------------------------------------------------
(* Properties of the streaming reader: progress *)

\* A read with room in its output buffer is pending on an open reader.
C35_Waiting == reader_pc = "open" /\ last_read.res = "Pending"

\* A read with room in its output buffer has completed, with data, with no
\* data, or with an error.
C35_Completed == last_read.res \in {"Ok", "Err"} /\ last_read.remaining >= 1

\* C35: on a finite inner stream whose reads eventually complete, a read with
\* room in its output buffer that is pending eventually completes with data,
\* EOF or an error, unless the reader is dropped; and a frame that decodes to
\* zero bytes is skipped for the frame that follows it: a read with room
\* returns 0 bytes only once a decode has failed and the inner reader is gone,
\* never for an empty frame.
C35_ReadProgress ==
    /\ C35_Waiting ~> (C35_Completed \/ reader_pc = "dropped")
    /\ []((last_read.res = "Ok" /\ last_read.remaining >= 1 /\ last_read.n = 0)
             => (errored /\ ~inner /\ ~block_reading_future))
    /\ [](last_read.res = "Pending" => last_read.remaining >= 1)

\* The first frame of the stream decodes to zero bytes; a read with room
\* went past it and returned the first byte of the frame that follows.
C35_Witness ==
    /\ reader_pc = "open"
    /\ Len(payloads) = 2
    /\ payloads[1] = <<>>
    /\ last_read.res = "Ok"
    /\ last_read.n = 1
    /\ delivered = <<payloads[2][1]>>

----------------------------------------------------------------------------
(* Properties of the sparse offsets: the state carried out *)

\* The first call read a granule of more rows than the window, from the empty
\* carry state.
C36_ShortWindow ==
    /\ calls = 1
    /\ sparse_ok
    /\ state_in = EmptyState
    /\ num_rows < Len(granules[1])

\* The rows the state accounts for: the trailing defaults and the one value.
C36_Accounted ==
    FromU64(state.num_trailing_defaults)
        + (IF state.has_value_after_defaults THEN 1 ELSE 0)

\* The values of the granule at or beyond the window.
C36_Beyond ==
    Cardinality({i \in 1..Len(granules[1]) : granules[1][i] /\ i - 1 >= num_rows})

\* C36: after a call from the empty carry state on a granule of N rows with
\* rows_wanted = w < N, num_trailing_defaults + (1 if has_value_after_defaults)
\* equals N - w, however many non-default values lie beyond the window.
C36_CarryOut ==
    C36_ShortWindow => C36_Accounted = Len(granules[1]) - num_rows

\* With at most one value beyond the window the state accounts for every row
\* beyond it.
C36_OneBeyond ==
    (C36_ShortWindow /\ C36_Beyond <= 1)
        => C36_Accounted = Len(granules[1]) - num_rows

\* Two values beyond a window of one row: the state holds one value and no
\* default, one row for the two that are left.
C36_Witness ==
    /\ C36_ShortWindow
    /\ granules[1] = <<FALSE, TRUE, TRUE>>
    /\ num_rows = 1
    /\ offsets = <<>>
    /\ state = [num_trailing_defaults |-> ToU64(0), has_value_after_defaults |-> TRUE]

----------------------------------------------------------------------------
(* Properties of the sparse offsets: the positions returned *)

\* A call has returned positions.
C37_Returned == calls = 1 /\ sparse_ok

\* Every position returned lies in the window.
C37_InWindow == \A k \in 1..Len(offsets) : offsets[k] < num_rows

\* The positions returned are strictly increasing.
C37_Increasing == \A k \in 1..Len(offsets) - 1 : offsets[k] < offsets[k + 1]

\* C37: for every varint stream, every carry state and every rows_wanted, the
\* positions returned are strictly increasing and each is below rows_wanted.
C37_WellFormed == C37_Returned => (C37_InWindow /\ C37_Increasing)

\* Every position returned lies in the window, whatever the stream and the
\* carry state.
C37_Bounded == C37_Returned => C37_InWindow

\* On the offsets the server writes for a granule, entered with a carried run
\* below 2^28, the positions are strictly increasing.
C37_ServerStream == (C37_Returned /\ C32_WholeGranule) => C37_Increasing

\* Runs of defaults that add up to 2^64: the position wraps around to row 0
\* and row 0 is returned twice.
C37_Witness ==
    /\ C37_Returned
    /\ IsPrefix(LongRuns, sparse_bytes)
    /\ state_in = EmptyState
    /\ num_rows = 1
    /\ offsets = <<0, 0>>

----------------------------------------------------------------------------
(* Properties of the sparse offsets: streams that end early *)

\* The offset right behind the first varint of bytes, read from pos on, that
\* has the end-of-granule flag; -1 if a read fails before one is seen.
RECURSIVE C38_FirstFlag(_, _)
C38_FirstFlag(bytes, pos) ==
    LET v == ReadVarUInt(SubSeq(bytes, pos + 1, Len(bytes)))
    IN  IF ~v.ok THEN -1
        ELSE IF IsEndOfGranule(v.value) THEN pos + v.consumed
        ELSE C38_FirstFlag(bytes, pos + v.consumed)

----------------------------------------------------------------------------
(* Properties of the null masks: sliced arrays *)

\* The array is a slice whose first row is not at bit 0 of the validity
\* buffer, serialized for a type that is no container.
C39_Sliced == ~C19_Container /\ array.nulls /\ array.offset > 0

\* The mask read from bit 0 of the validity buffer on, whatever the offset.
C39_FromBitZero ==
    [i \in 1..array.len |-> IF IsNull([array EXCEPT !.offset = 0], i - 1) THEN 1 ELSE 0]

\* C39: for a slice of a longer array, whose validity bitmap starts at a bit
\* offset above 0, the mask written by serialize_nulls_async (and
\* serialize_nulls) and returned by prepare_null_bitmap has byte i equal to 1
\* iff row i of the slice is null.
C39_SlicedMask ==
    C39_Sliced =>
        /\ null_call \in {"serialize_nulls", "serialize_nulls_async"}
              => null_writer = C20_Mask
        /\ null_call = "prepare_null_bitmap" => null_mask = C20_Mask

\* What is written instead: the rows of the underlying array from its first
\* row on.
C39_UnderlyingRows ==
    C39_Sliced =>
        /\ null_call \in {"serialize_nulls", "serialize_nulls_async"}
              => null_writer = C39_FromBitZero
        /\ null_call = "prepare_null_bitmap" => null_mask = C39_FromBitZero

\* A slice of three rows at bit offset 3 whose middle row alone is null, of an
\* array whose rows 0 and 2 are null: the mask names rows 0 and 2, not row 1.
C39_Witness ==
    /\ C39_Sliced
    /\ null_call = "serialize_nulls_async"
    /\ array.len = 3
    /\ array.offset = 3
    /\ ~IsNull(array, 0) /\ IsNull(array, 1) /\ ~IsNull(array, 2)
    /\ array.validity = <<170>>
    /\ null_writer = <<1, 0, 1>>

----------------------------------------------------------------------------
(* Properties of the varints: values beyond 64 bits *)

\* decode_varint accepted a slice from elsewhere.
C40_Accepted == varint_pc = "decoded" /\ varint_value = <<>> /\ varint_out.some

\* The 7-bit groups of the LEB128 value of the bytes consumed, least
\* significant first: group i is byte i without its continuation bit.
C40_Groups ==
    [i \in 1..U64Groups |->
        IF i <= varint_out.consumed THEN varint_buf[i] % 128 ELSE 0]

\* The LEB128 value fits in 64 bits: its tenth group is bit 63 alone.
C40_Fits == C40_Groups[U64Groups] <= 1

\* C40: for every slice decode_varint accepts, the u64 returned is the exact
\* LEB128 value of the bytes consumed; ten bytes whose value does not fit in
\* 64 bits are rejected, not returned reduced modulo 2^64.
C40_NoSilentOverflow == C40_Accepted => (C40_Fits /\ varint_out.value = C40_Groups)

\* Whenever the value fits in 64 bits, the u64 returned is exact.
C40_ExactWhenFits == (C40_Accepted /\ C40_Fits) => varint_out.value = C40_Groups

\* Nine bytes 0x80 and a tenth byte 0x7F, the value 127 * 2^63: accepted as
\* ten bytes with the value 2^63.
C40_Witness ==
    /\ C40_Accepted
    /\ varint_buf = [i \in 1..10 |-> IF i = 10 THEN 127 ELSE 128]
    /\ varint_out.consumed = 10
    /\ varint_out.value = [i \in 1..U64Groups |-> IF i = U64Groups THEN 1 ELSE 0]

============================================================================
